---- MODULE Spec2Model ----
(***************************************************************************)
(* The fixture database of pytest-language-server (src/src/fixtures.rs):   *)
(* the index (definitions, usages, file_cache), analyze_file, and the      *)
(* resolver find_fixture_definition / find_closest_definition. Spec runs   *)
(* every call without interruption; SpecConc runs analyze_file statement   *)
(* by statement on several threads, with queries in between.               *)
(*                                                                         *)
(* Strings are sequences of one-character strings, so that `lines()`,      *)
(* `starts_with` and the word under the cursor are computed, not assumed.  *)
(* Paths are sequences of components: <<"p", "conftest.py">> is            *)
(* /p/conftest.py and <<>> is the filesystem root.                         *)
(* Option<T> is a sequence of length 0 (None) or 1 (Some).                 *)
(***************************************************************************)
EXTENDS Integers, Sequences, FiniteSets, TLC

VARIABLES
    definitions,  \* DashMap<String, Vec<FixtureDefinition>>
    usages,       \* DashMap<PathBuf, Vec<FixtureUsage>>
    file_cache,   \* DashMap<PathBuf, String>
    result,       \* the last query: its arguments and what it returned
    tasks,        \* per thread, the call it is inside of
    calls,        \* how many interleaved analyze_file calls were started
    canonical_path_cache,  \* DashMap<PathBuf, PathBuf>
    linked,       \* the file system: whether /l is a symbolic link to /p
    canonicalized, \* per raw path, how often Path::canonicalize ran for it
    shards,       \* per map and shard, the RwLock: its writer and readers
    lock_ops,     \* per thread, the lock operations left of its call
    writer_first  \* whether a parked writer keeps new readers out

\* the variables of the canonical-path cache
pathvars == <<canonical_path_cache, linked, canonicalized>>

\* the variables of the shard locks
lockvars == <<shards, lock_ops, writer_first>>

vars ==
    <<definitions, usages, file_cache, result, tasks, calls, pathvars,
      lockvars>>

None == <<>>
Some(x) == <<x>>

\* no query is recorded
NoResult ==
    [op |-> "none", file_path |-> <<>>, line |-> 0, character |-> 0,
     definition |-> None, args |-> None, ret |-> None]

-----------------------------------------------------------------------------
(* Bounds of the cursor positions the queries are called with.             *)
MaxLine == 5
MaxCol == 10
\* how many analyze_file calls are followed statement by statement
MaxCalls == 2

-----------------------------------------------------------------------------
(* str helpers                                                             *)

NL == "\n"

IdentChars ==
    {"a", "b", "c", "d", "e", "f", "i", "l", "m", "o", "p", "r", "s", "t",
     "u", "x", "_", "0"}

\* char::is_alphanumeric() || c == '_'
IsIdentChar(c) == c \in IdentChars

\* str::lines(): split at "\n"; a final line terminator adds no empty line.
RECURSIVE StrLinesFrom(_, _, _)
StrLinesFrom(s, i, cur) ==
    IF i > Len(s) THEN (IF cur = <<>> THEN <<>> ELSE <<cur>>)
    ELSE IF s[i] = NL THEN <<cur>> \o StrLinesFrom(s, i + 1, <<>>)
    ELSE StrLinesFrom(s, i + 1, Append(cur, s[i]))

StrLines(s) == StrLinesFrom(s, 1, <<>>)

\* str::starts_with
StartsWith(s, p) == Len(s) >= Len(p) /\ SubSeq(s, 1, Len(p)) = p

RECURSIVE Join(_)
\* the lines of a text joined into one String, each line ended by "\n"
Join(ls) == IF ls = <<>> THEN <<>> ELSE Head(ls) \o <<NL>> \o Join(Tail(ls))

-----------------------------------------------------------------------------
(* Path helpers (std::path::Path)                                          *)

\* Path::parent(): None for the root
Parent(p) == IF p = <<>> THEN None ELSE Some(SubSeq(p, 1, Len(p) - 1))

\* Path::join
PathJoin(dir, name) == Append(dir, name)

\* Path::file_name()
FileName(p) == IF p = <<>> THEN None ELSE Some(p[Len(p)])

-----------------------------------------------------------------------------
(* The source texts the files are analyzed with, line by line.             *)

\* @fixture
L_decorator ==
    <<"@", "f", "i", "x", "t", "u", "r", "e">>

\* def a():0
L_def_a ==
    <<"d", "e", "f", " ", "a", "(", ")", ":", "0">>

\* def a(a):0
L_def_a_a ==
    <<"d", "e", "f", " ", "a", "(", "a", ")", ":", "0">>

\* def test_(a):0
L_test ==
    <<"d", "e", "f", " ", "t", "e", "s", "t", "_", "(", "a", ")", ":", "0">>

\* def test_(
L_test_open ==
    <<"d", "e", "f", " ", "t", "e", "s", "t", "_", "(">>

\* a):0
L_param ==
    <<"a", ")", ":", "0">>

\* def test_():
L_test_none ==
    <<"d", "e", "f", " ", "t", "e", "s", "t", "_", "(", ")", ":">>

\* a line of a body that reads the name a
L_read_a ==
    <<" ", "a">>

\* import a
L_import ==
    <<"i", "m", "p", "o", "r", "t", " ", "a">>

\* a=0
L_assign ==
    <<"a", "=", "0">>

\* a line of a body that binds the name a
L_bind_a ==
    <<" ", "a", "=", "0">>

\* a line of a body that reads the name a and binds it to the result
L_rebind_a ==
    <<" ", "a", "=", "a">>

\* def (
L_bad ==
    <<"d", "e", "f", " ", "(">>

\* b=fixture()(x)
L_assign_fixture ==
    <<"b", "=", "f", "i", "x", "t", "u", "r", "e", "(", ")", "(", "x", ")">>

\* x=0;a=fixture()(x)
L_semicolon ==
    <<"x", "=", "0", ";", "a", "=", "f", "i", "x", "t", "u", "r", "e", "(",
      ")", "(", "x", ")">>

\* def a(b):0
L_def_a_b ==
    <<"d", "e", "f", " ", "a", "(", "b", ")", ":", "0">>

\* def b(a):0
L_def_b_a ==
    <<"d", "e", "f", " ", "b", "(", "a", ")", ":", "0">>

\* class x:
L_class ==
    <<"c", "l", "a", "s", "s", " ", "x", ":">>

\* the decorator line of a method
L_m_decorator == <<" ">> \o L_decorator

\*  def a(self):0
L_m_def ==
    <<" ", "d", "e", "f", " ", "a", "(", "s", "e", "l", "f", ")", ":", "0">>

\*  def test_(self,a):0
L_m_test ==
    <<" ", "d", "e", "f", " ", "t", "e", "s", "t", "_", "(", "s", "e", "l",
      "f", ",", "a", ")", ":", "0">>

\* a conftest.py that defines fixture a
T_def == Join(<<L_decorator, L_def_a>>)

\* a fixture a that overrides, and depends on, the fixture a above it
T_self == Join(<<L_decorator, L_def_a_a>>)

\* a test that uses fixture a
T_test == Join(<<L_test>>)

\* fixture a defined twice in one file (the second overriding the first),
\* and a test that uses it
T_two == Join(<<L_decorator, L_def_a, L_decorator, L_def_a_a, L_test>>)

\* a test whose parameter is on the line after the def line
T_multi == Join(<<L_test_open, L_param>>)

\* a text the parser rejects
T_bad == Join(<<L_bad>>)

\* fixtures made by assignment: b at the start of a line, a after a `;`
T_semicolon == Join(<<L_assign_fixture, L_semicolon>>)

\* fixtures a and b that depend on each other
T_cycle == Join(<<L_decorator, L_def_a_b, L_decorator, L_def_b_a>>)

\* a class with a fixture method a and a test method that uses it
T_class == Join(<<L_class, L_m_decorator, L_m_def, L_m_test>>)

\* a test that reads the name a without declaring it as a parameter
T_free == Join(<<L_test_none, L_read_a>>)

\* a test that declares a as a parameter and reads it
T_declared == Join(<<L_test, L_read_a>>)

\* a test that reads a name the file imports
T_imported == Join(<<L_import, L_test_none, L_read_a>>)

\* a test that reads a name the file assigns at module level
T_assigned == Join(<<L_assign, L_test_none, L_read_a>>)

\* a fixture a, and a test of the same file that reads a without
\* declaring it
T_direct == Join(<<L_decorator, L_def_a, L_test_none, L_read_a>>)

\* a test that reads a, then binds a locally, then reads it again
T_shadow == Join(<<L_test_none, L_read_a, L_bind_a, L_read_a>>)

\* a test that reads a on the line that first binds it
T_same_line == Join(<<L_test_none, L_rebind_a>>)

Texts == {T_def, T_self, T_test, T_two, T_multi, T_bad,
          T_free, T_declared, T_imported, T_assigned,
          T_direct, T_shadow, T_same_line, T_class, T_cycle,
          T_semicolon}

\* "a", "test_", "self", "request" as Strings
N_a == <<"a">>
N_test == <<"t", "e", "s", "t", "_">>
N_self == <<"s", "e", "l", "f">>
N_request == <<"r", "e", "q", "u", "e", "s", "t">>
N_fixture == <<"f", "i", "x", "t", "u", "r", "e">>
N_pytest == <<"p", "y", "t", "e", "s", "t">>

-----------------------------------------------------------------------------
(* rustpython_parser::parse: the syntax tree of each text. A statement     *)
(* carries the byte offset its range starts at, given as (row, col) of     *)
(* the text and turned into the offset the parser reports.                 *)

\* byte offset of column col (0-based) of line row (1-based) of a text
RECURSIVE OffsetOf(_, _, _)
OffsetOf(ls, row, col) ==
    IF row = 1 THEN col
    ELSE Len(Head(ls)) + 1 + OffsetOf(Tail(ls), row - 1, col)

E_fixture == [e |-> "Name", id |-> N_fixture]

FunctionDef(name, decorators, args, text, row) ==
    [kind |-> "FunctionDef", name |-> name, decorator_list |-> decorators,
     args |-> args, start |-> OffsetOf(StrLines(text), row, 0),
     docstring |-> None, body |-> <<>>]

\* a name expression of a function body, on line row (1-based) of the text
NameAt(id, row) == [e |-> "Name", id |-> id, row |-> row]

\* an assignment of a function body to the name id, on line row
BindAt(id, row) == [e |-> "Bind", id |-> id, row |-> row]

\* a function whose body reads and binds the given names, in source order
FunctionDefReading(name, decorators, args, text, row, names) ==
    [FunctionDef(name, decorators, args, text, row) EXCEPT !.body = names]

\* a function definition inside a class body, one column in
MethodDef(name, decorators, args, text, row) ==
    [FunctionDef(name, decorators, args, text, row) EXCEPT
        !.start = OffsetOf(StrLines(text), row, 1)]

\* class <name>: <body>
ClassDef(body) == [kind |-> "ClassDef", body |-> body]

\* import <names>
Import(names) == [kind |-> "Import", names |-> names]

\* <target> = <constant>
Assign(targets) ==
    [kind |-> "Assign", targets |-> targets, value |-> [e |-> "Constant"],
     start |-> 0]

\* <target> = fixture()(<function>), at column col of line row
AssignFixture(targets, text, row, col) ==
    [kind |-> "Assign", targets |-> targets,
     value |-> [e |-> "Call",
                func |-> [e |-> "Call", func |-> E_fixture]],
     start |-> OffsetOf(StrLines(text), row, col)]

ParseError == [ok |-> FALSE, body |-> <<>>]
Module(body) == [ok |-> TRUE, body |-> body]

Parse(text) ==
    CASE text = T_def ->
           Module(<<FunctionDef(N_a, <<E_fixture>>, <<>>, text, 2)>>)
      [] text = T_self ->
           Module(<<FunctionDef(N_a, <<E_fixture>>, <<N_a>>, text, 2)>>)
      [] text = T_test ->
           Module(<<FunctionDef(N_test, <<>>, <<N_a>>, text, 1)>>)
      [] text = T_two ->
           Module(<<FunctionDef(N_a, <<E_fixture>>, <<>>, text, 2),
                    FunctionDef(N_a, <<E_fixture>>, <<N_a>>, text, 4),
                    FunctionDef(N_test, <<>>, <<N_a>>, text, 5)>>)
      [] text = T_multi ->
           Module(<<FunctionDef(N_test, <<>>, <<N_a>>, text, 1)>>)
      [] text = T_free ->
           Module(<<FunctionDefReading(N_test, <<>>, <<>>, text, 1,
                                       <<NameAt(N_a, 2)>>)>>)
      [] text = T_declared ->
           Module(<<FunctionDefReading(N_test, <<>>, <<N_a>>, text, 1,
                                       <<NameAt(N_a, 2)>>)>>)
      [] text = T_imported ->
           Module(<<Import(<<N_a>>),
                    FunctionDefReading(N_test, <<>>, <<>>, text, 2,
                                       <<NameAt(N_a, 3)>>)>>)
      [] text = T_assigned ->
           Module(<<Assign(<<N_a>>),
                    FunctionDefReading(N_test, <<>>, <<>>, text, 2,
                                       <<NameAt(N_a, 3)>>)>>)
      [] text = T_direct ->
           Module(<<FunctionDef(N_a, <<E_fixture>>, <<>>, text, 2),
                    FunctionDefReading(N_test, <<>>, <<>>, text, 3,
                                       <<NameAt(N_a, 4)>>)>>)
      [] text = T_shadow ->
           Module(<<FunctionDefReading(N_test, <<>>, <<>>, text, 1,
                                       <<NameAt(N_a, 2), BindAt(N_a, 3),
                                         NameAt(N_a, 4)>>)>>)
      [] text = T_same_line ->
           Module(<<FunctionDefReading(N_test, <<>>, <<>>, text, 1,
                                       <<NameAt(N_a, 2), BindAt(N_a, 2)>>)>>)
      [] text = T_semicolon ->
           Module(<<AssignFixture(<<<<"b">>>>, text, 1, 0),
                    Assign(<<<<"x">>>>),
                    AssignFixture(<<N_a>>, text, 2, 4)>>)
      [] text = T_cycle ->
           Module(<<FunctionDef(N_a, <<E_fixture>>, <<<<"b">>>>, text, 2),
                    FunctionDef(<<"b">>, <<E_fixture>>, <<N_a>>, text, 4)>>)
      [] text = T_class ->
           Module(<<ClassDef(<<MethodDef(N_a, <<E_fixture>>, <<N_self>>,
                                         text, 3),
                               MethodDef(N_test, <<>>, <<N_self, N_a>>,
                                         text, 4)>>)>>)
      [] OTHER -> ParseError

\* the trees and the lines of the texts, computed once
ParseTable == [t \in Texts |-> Parse(t)]
LinesTable == [t \in Texts |-> StrLines(t)]

-----------------------------------------------------------------------------
(* The files of the workspace.                                             *)

F_root == <<"p", "conftest.py">>
F_sub == <<"p", "s", "conftest.py">>
F_test == <<"p", "s", "test_x.py">>
F_oth == <<"o", "conftest.py">>
F_plug == <<"v", "site-packages", "pytest_m", "plugin.py">>

Files == {F_root, F_sub, F_test, F_oth, F_plug}

\* the texts each file is analyzed with
Inputs(f) ==
    CASE f = F_root -> {T_def}
      [] f = F_sub -> {T_self}
      [] f = F_test -> {T_test, T_two, T_multi, T_bad}
      [] f = F_oth -> {T_def, T_test}
      [] f = F_plug -> {T_def}

\* the files std::fs::read_to_string can read, and what it returns
Disk == (F_plug :> T_def)

-----------------------------------------------------------------------------
(* analyze_file and the visitor                                            *)

\* get_line_from_offset that counts the lines before the offset only
get_line_from_offset_before(offset, content) ==
    Len(StrLines(SubSeq(content, 1, offset)))

\* FixtureDatabase::get_line_from_offset: content[..offset].lines().count() + 1
get_line_from_offset(offset, content) ==
    Len(StrLines(SubSeq(content, 1, offset))) + 1

\* FixtureDatabase::is_fixture_decorator
RECURSIVE is_fixture_decorator(_)
is_fixture_decorator(expr) ==
    CASE expr.e = "Name" -> expr.id = N_fixture
      [] expr.e = "Attribute" ->
           IF expr.value.e = "Name"
           THEN expr.value.id = N_pytest /\ expr.attr = N_fixture
           ELSE FALSE
      [] expr.e = "Call" -> is_fixture_decorator(expr.func)
      [] OTHER -> FALSE

FixtureDefinition(name, file_path, line, docstring) ==
    [name |-> name, file_path |-> file_path, line |-> line,
     docstring |-> docstring]

FixtureUsage(name, file_path, line) ==
    [name |-> name, file_path |-> file_path, line |-> line]

\* the usages pushed for the parameters of a function, in order
RECURSIVE ArgUsages(_, _, _, _)
ArgUsages(args, skip, file_path, func_line) ==
    IF args = <<>> THEN <<>>
    ELSE (IF Head(args) \in skip THEN <<>>
          ELSE <<[op |-> "usage",
                  rec |-> FixtureUsage(Head(args), file_path, func_line)]>>)
         \o ArgUsages(Tail(args), skip, file_path, func_line)

\* FixtureDatabase::visit_assignment_fixture: for the value
\* fixture()(f) one definition per target, at the line of the assignment
visit_assignment_fixture(assign, file_path, content) ==
    IF /\ assign.value.e = "Call"
       /\ assign.value.func.e = "Call"
       /\ is_fixture_decorator(assign.value.func.func)
    THEN [i \in DOMAIN assign.targets |->
            [op |-> "def",
             rec |-> FixtureDefinition(
                         assign.targets[i], file_path,
                         get_line_from_offset(assign.start, content),
                         None)]]
    ELSE <<>>

\* FixtureDatabase::visit_stmt: the pushes one statement makes, in order
visit_stmt(stmt, file_path, content) ==
    IF stmt.kind = "Assign"
    THEN visit_assignment_fixture(stmt, file_path, content)
    ELSE IF stmt.kind \notin {"FunctionDef", "AsyncFunctionDef"} THEN <<>>
    ELSE
      LET line == get_line_from_offset(stmt.start, content)
          is_fixture ==
              \E i \in 1..Len(stmt.decorator_list) :
                  is_fixture_decorator(stmt.decorator_list[i])
      IN  (IF is_fixture
           THEN <<[op |-> "def",
                   rec |-> FixtureDefinition(stmt.name, file_path, line,
                                             stmt.docstring)]>>
                \o ArgUsages(stmt.args, {N_self, N_request}, file_path, line)
           ELSE <<>>)
          \o
          (IF StartsWith(stmt.name, N_test)
           THEN ArgUsages(stmt.args, {N_self}, file_path, line)
           ELSE <<>>)

\* the pushes of the loop over module.body
RECURSIVE visit_body(_, _, _)
visit_body(body, file_path, content) ==
    IF body = <<>> THEN <<>>
    ELSE visit_stmt(Head(body), file_path, content)
         \o visit_body(Tail(body), file_path, content)

\* map.entry(key).or_default().push(rec)
EntryPush(map, key, rec) ==
    IF key \in DOMAIN map
    THEN [map EXCEPT ![key] = Append(@, rec)]
    ELSE [k \in DOMAIN map \cup {key} |->
            IF k = key THEN <<rec>> ELSE map[k]]

\* map.remove(key)
MapRemove(map, key) == [k \in DOMAIN map \ {key} |-> map[k]]

\* map.insert(key, value)
MapInsert(map, key, value) ==
    [k \in DOMAIN map \cup {key} |-> IF k = key THEN value ELSE map[k]]

\* the retain that keeps nothing of the entry
RetainNothing(defs, file_path) == <<>>

\* entry.value_mut().retain(|def| def.file_path != file_path)
RetainOthers(defs, file_path) ==
    SelectSeq(defs, LAMBDA d : d.file_path # file_path)

\* the loop that drops nothing
ClearNothing(defs, file_path) == defs

\* the loop over definitions.iter_mut()
ClearDefinitions(defs, file_path) ==
    [n \in DOMAIN defs |-> RetainOthers(defs[n], file_path)]

\* definitions.retain(|_, defs| !defs.is_empty())
RemoveEmpty(defs) ==
    [n \in {m \in DOMAIN defs : defs[m] # <<>>} |-> defs[n]]

\* one push of the visitor applied to the two maps
ApplyPush(idx, p) ==
    IF p.op = "def"
    THEN [idx EXCEPT !.definitions = EntryPush(@, p.rec.name, p.rec)]
    ELSE [idx EXCEPT !.usages = EntryPush(@, p.rec.file_path, p.rec)]

RECURSIVE ApplyPushes(_, _)
ApplyPushes(idx, ps) ==
    IF ps = <<>> THEN idx ELSE ApplyPushes(ApplyPush(idx, Head(ps)), Tail(ps))

\* FixtureDatabase::analyze_file run without interruption, on an index
\* [definitions, usages, file_cache]
analyze_file(idx, file_path, content) ==
    LET cached == [idx EXCEPT !.file_cache = MapInsert(@, file_path, content)]
        parsed == ParseTable[content]
    IN  IF ~parsed.ok THEN cached
        ELSE LET cleared ==
                   [cached EXCEPT
                      !.usages = MapRemove(@, file_path),
                      !.definitions =
                          RemoveEmpty(ClearDefinitions(@, file_path))]
             IN  ApplyPushes(cleared,
                             visit_body(parsed.body, file_path, content))

-----------------------------------------------------------------------------
(* The resolver                                                            *)

\* the first element of a Vec that satisfies a test, as the `for` loops
\* with an early return find it
FirstWith(vec, hits) ==
    IF hits = {} THEN None
    ELSE Some(vec[CHOOSE i \in hits : \A j \in hits : i <= j])

\* find_closest_definition without its first loop: the definitions of the
\* querying file are passed over
SameFileDefinitionSkipped(defs, file_path) == None

\* Priority 1 of find_closest_definition: the loop over the definitions
\* that returns at the first one of the querying file
SameFileDefinition(defs, file_path) ==
    FirstWith(defs, {i \in DOMAIN defs : defs[i].file_path = file_path})

\* ConftestWalk without the climb: only the directory of the file is looked at
ConftestWalkOneLevel(defs, current_dir) ==
    FirstWith(defs,
              {i \in DOMAIN defs :
                   defs[i].file_path = PathJoin(current_dir, "conftest.py")})

\* Priority 2: the loop that walks from current_dir up to the root and
\* returns at the first conftest.py that has a definition
RECURSIVE ConftestWalk(_, _)
ConftestWalk(defs, current_dir) ==
    LET conftest_path == PathJoin(current_dir, "conftest.py")
        found == FirstWith(defs, {i \in DOMAIN defs :
                                     defs[i].file_path = conftest_path})
    IN  IF found # None THEN found
        ELSE IF Parent(current_dir) = None THEN None
        ELSE ConftestWalk(defs, Parent(current_dir)[1])

\* the fallback: definitions.iter().next().cloned()
FirstAvailable(defs) == IF defs = <<>> THEN None ELSE Some(Head(defs))

\* find_closest_definition without the walk through the conftest.py files
find_closest_definition_flat(db, file_path, fixture_name) ==
    IF fixture_name \notin DOMAIN db.definitions THEN None
    ELSE LET same == SameFileDefinition(db.definitions[fixture_name], file_path)
         IN  IF same # None THEN same
             ELSE FirstAvailable(db.definitions[fixture_name])

\* FixtureDatabase::find_closest_definition
find_closest_definition(db, file_path, fixture_name) ==
    IF fixture_name \notin DOMAIN db.definitions THEN None
    ELSE
      LET defs == db.definitions[fixture_name]
          same == SameFileDefinition(defs, file_path)
      IN  IF same # None THEN same
          ELSE IF Parent(file_path) = None THEN None
          ELSE LET up == ConftestWalk(defs, Parent(file_path)[1])
               IN  IF up # None THEN up ELSE FirstAvailable(defs)

\* the backward loop that does not run: the word starts at the cursor
WordStartAtCursor(chars, start) == start

\* FixtureDatabase::extract_word_at_position; character is 0-based
RECURSIVE WordStart(_, _)
WordStart(chars, start) ==
    IF start > 0 /\ IsIdentChar(chars[start]) THEN WordStart(chars, start - 1)
    ELSE start

RECURSIVE WordEnd(_, _)
WordEnd(chars, end) ==
    IF end < Len(chars) /\ IsIdentChar(chars[end + 1])
    THEN WordEnd(chars, end + 1)
    ELSE end

extract_word_at_position(chars, character) ==
    IF character > Len(chars) THEN None
    ELSE IF character < Len(chars) /\ IsIdentChar(chars[character + 1])
    THEN LET start == WordStart(chars, character)
             end == WordEnd(chars, character)
         IN  IF start < end THEN Some(SubSeq(chars, start + 1, end)) ELSE None
    ELSE None

\* the text a query reads: the cache first, then the file system
ReadContent(db, file_path) ==
    IF file_path \in DOMAIN db.file_cache
    THEN Some(db.file_cache[file_path])
    ELSE IF file_path \in DOMAIN Disk THEN Some(Disk[file_path])
    ELSE None

\* find_fixture_definition that resolves the word under the cursor without
\* looking for a usage of it
find_fixture_definition_any_word(db, file_path, line, character) ==
    LET target_line == line + 1
        content == ReadContent(db, file_path)
    IN  IF content = None THEN None
        ELSE
          LET lines == LinesTable[content[1]]
          IN  IF target_line = 0 \/ target_line > Len(lines) THEN None
              ELSE
                LET word_at_cursor ==
                        extract_word_at_position(lines[target_line], character)
                IN  IF word_at_cursor = None THEN None
                    ELSE find_closest_definition(db, file_path,
                                                 word_at_cursor[1])

\* FixtureDatabase::find_fixture_definition; line and character are 0-based
find_fixture_definition(db, file_path, line, character) ==
    LET target_line == line + 1
        content == ReadContent(db, file_path)
    IN  IF content = None THEN None
        ELSE
          LET lines == LinesTable[content[1]]
          IN  IF target_line = 0 \/ target_line > Len(lines) THEN None
              ELSE
                LET word_at_cursor ==
                        extract_word_at_position(lines[target_line], character)
                    us == IF file_path \in DOMAIN db.usages
                          THEN db.usages[file_path] ELSE <<>>
                    hit == FirstWith(us,
                               {i \in DOMAIN us :
                                    /\ us[i].line = target_line
                                    /\ Some(us[i].name) = word_at_cursor})
                IN  IF word_at_cursor = None \/ hit = None THEN None
                    ELSE find_closest_definition(db, file_path, hit[1].name)

\* the first loop of find_fixture_at_position: the usages of the file
UsageNameAt(db, file_path, target_line, word_at_cursor) ==
    LET us == IF file_path \in DOMAIN db.usages
              THEN db.usages[file_path] ELSE <<>>
        hit == FirstWith(us, {i \in DOMAIN us :
                                  /\ us[i].line = target_line
                                  /\ Some(us[i].name) = word_at_cursor})
    IN  IF hit = None THEN None ELSE Some(hit[1].name)

\* the second loop with a definition of any file
DefinitionNameAtAnyFile(db, file_path, target_line, word_at_cursor) ==
    IF \E n \in DOMAIN db.definitions :
           \E i \in 1..Len(db.definitions[n]) :
               /\ db.definitions[n][i].line = target_line
               /\ Some(db.definitions[n][i].name) = word_at_cursor
    THEN word_at_cursor ELSE None

\* the second loop of find_fixture_at_position: every definition of every
\* entry; whichever matches first, the name returned is the word
DefinitionNameAt(db, file_path, target_line, word_at_cursor) ==
    IF \E n \in DOMAIN db.definitions :
           \E i \in 1..Len(db.definitions[n]) :
               /\ db.definitions[n][i].file_path = file_path
               /\ db.definitions[n][i].line = target_line
               /\ Some(db.definitions[n][i].name) = word_at_cursor
    THEN word_at_cursor ELSE None

\* FixtureDatabase::find_fixture_at_position; line and character are 0-based
find_fixture_at_position(db, file_path, line, character) ==
    LET target_line == line + 1
        content == ReadContent(db, file_path)
    IN  IF content = None THEN None
        ELSE
          LET lines == LinesTable[content[1]]
          IN  IF target_line = 0 \/ target_line > Len(lines) THEN None
              ELSE
                LET word_at_cursor ==
                        extract_word_at_position(lines[target_line], character)
                    usage == UsageNameAt(db, file_path, target_line,
                                         word_at_cursor)
                IN  IF usage # None THEN usage
                    ELSE DefinitionNameAt(db, file_path, target_line,
                                          word_at_cursor)

-----------------------------------------------------------------------------
(* The other queries                                                       *)

\* a Vec whose order is the iteration order of a DashMap, as a bag
BagOf(count) == [x \in {y \in DOMAIN count : count[y] > 0} |-> count[x]]

\* how many times a Vec holds x
Occurrences(vec, x) == Cardinality({i \in 1..Len(vec) : vec[i] = x})

\* every usage record of a usages map
UsagesIn(us) ==
    UNION {{us[f][i] : i \in 1..Len(us[f])} : f \in DOMAIN us}

\* find_fixture_references that leaves a file at its first match
find_fixture_references_first(db, fixture_name) ==
    BagOf([u \in {v \in UsagesIn(db.usages) : v.name = fixture_name} |->
              LET us == db.usages[u.file_path]
                  first == FirstWith(us, {i \in DOMAIN us :
                                              us[i].name = fixture_name})
              IN  IF first = Some(u) THEN 1 ELSE 0])

\* FixtureDatabase::find_fixture_references: the usages with that name,
\* of every file
find_fixture_references(db, fixture_name) ==
    BagOf([u \in {v \in UsagesIn(db.usages) : v.name = fixture_name} |->
              Occurrences(db.usages[u.file_path], u)])

\* find_references_for_definition: the references by name whose
\* resolution from their own file is that definition
find_references_for_definition(db, definition) ==
    LET all == find_fixture_references(db, definition.name)
    IN  BagOf([u \in DOMAIN all |->
                  IF find_closest_definition(db, u.file_path, u.name)
                         = Some(definition)
                  THEN all[u] ELSE 0])

-----------------------------------------------------------------------------
(* The visible fixtures of a file and the undeclared fixtures of its       *)
(* function bodies.                                                        *)

\* a file of a virtual environment's site-packages
IsThirdParty(f) == \E i \in 1..Len(f) : f[i] = "site-packages"

\* every definition of the index, name after name
RECURSIVE DefinitionsOfNames(_, _)
DefinitionsOfNames(db, names) ==
    IF names = {} THEN <<>>
    ELSE LET n == CHOOSE m \in names : TRUE
         IN  db.definitions[n] \o DefinitionsOfNames(db, names \ {n})

\* the definitions a file contributed
DefinitionsIn(db, file_path) ==
    SelectSeq(DefinitionsOfNames(db, DOMAIN db.definitions),
              LAMBDA d : d.file_path = file_path)

\* the conftest.py files of every directory of the index, whether above
\* the file or not
ConftestLevelsAnywhere(db, current_dir) ==
    SelectSeq(DefinitionsOfNames(db, DOMAIN db.definitions),
              LAMBDA d : FileName(d.file_path) = Some("conftest.py"))

\* the definitions of the conftest.py files from current_dir up to the
\* root, the nearest directory first
RECURSIVE ConftestLevels(_, _)
ConftestLevels(db, current_dir) ==
    DefinitionsIn(db, PathJoin(current_dir, "conftest.py"))
    \o (IF Parent(current_dir) = None THEN <<>>
        ELSE ConftestLevels(db, Parent(current_dir)[1]))

\* the definitions of the third-party packages
ThirdPartyLevel(db) ==
    SelectSeq(DefinitionsOfNames(db, DOMAIN db.definitions),
              LAMBDA d : IsThirdParty(d.file_path))

\* the first definition of each name, in the order of the list
RECURSIVE DedupByName(_, _)
DedupByName(defs, seen_names) ==
    IF defs = <<>> THEN <<>>
    ELSE IF Head(defs).name \in seen_names
         THEN DedupByName(Tail(defs), seen_names)
         ELSE <<Head(defs)>>
              \o DedupByName(Tail(defs), seen_names \cup {Head(defs).name})

\* FixtureDatabase::get_available_fixtures: the definitions of the file,
\* of the conftest.py files above it and of the third-party packages, one
\* per name
get_available_fixtures(db, file_path) ==
    DedupByName(DefinitionsIn(db, file_path)
                \o (IF Parent(file_path) = None THEN <<>>
                    ELSE ConftestLevels(db, Parent(file_path)[1]))
                \o ThirdPartyLevel(db),
                {})

\* the statements of the text the index holds for a file
RecordedBody(db, file_path) ==
    IF file_path \in DOMAIN db.file_cache
    THEN ParseTable[db.file_cache[file_path]].body
    ELSE <<>>

\* the elements of a sequence
Elems(seq) == {seq[i] : i \in DOMAIN seq}

\* imports[file_path]: the names the file imports
imports(db, file_path) ==
    UNION {Elems(stmt.names) :
             stmt \in {st \in Elems(RecordedBody(db, file_path)) :
                          st.kind = "Import"}}

UndeclaredFixture(name, file_path, line, function_name, function_line) ==
    [name |-> name, file_path |-> file_path, line |-> line,
     function_name |-> function_name, function_line |-> function_line]

\* every function name of the file, the fixtures too
module_names_with_fixtures(db, file_path) ==
    UNION {IF stmt.kind = "Assign" THEN Elems(stmt.targets)
           ELSE IF stmt.kind = "FunctionDef" THEN {stmt.name}
           ELSE {} :
             stmt \in Elems(RecordedBody(db, file_path))}

\* the names the file binds at module level: assignment targets and
\* functions that are not fixtures
module_names(db, file_path) ==
    UNION {IF stmt.kind = "Assign" THEN Elems(stmt.targets)
           ELSE IF stmt.kind = "FunctionDef"
                   /\ \A i \in DOMAIN stmt.decorator_list :
                          ~is_fixture_decorator(stmt.decorator_list[i])
                THEN {stmt.name}
                ELSE {} :
             stmt \in Elems(RecordedBody(db, file_path))}

\* the lines of the function at which the name is bound locally
BindingLines(stmt, id) ==
    {stmt.body[k].row : k \in {j \in DOMAIN stmt.body :
                                  stmt.body[j].e = "Bind"
                                  /\ stmt.body[j].id = id}}

\* local names taken as bound from the top of the function
FirstBindingLineAtTop(stmt, id) ==
    IF BindingLines(stmt, id) = {} THEN None ELSE Some(0)

\* the first line at which the name becomes local to the function
FirstBindingLine(stmt, id) ==
    IF BindingLines(stmt, id) = {} THEN None
    ELSE Some(CHOOSE l \in BindingLines(stmt, id) :
                  \A m \in BindingLines(stmt, id) : l <= m)

\* a binding anywhere in the function hides the name on every line
ShadowedByAnyBinding(stmt, x) == FirstBindingLine(stmt, x.id) # None

\* the reading x is of a local name: the name was bound on a line before
\* the line of the reading
Shadowed(stmt, x) ==
    /\ FirstBindingLine(stmt, x.id) # None
    /\ FirstBindingLine(stmt, x.id)[1] < x.row

\* the scan that takes the imported names for free names
ScanFunctionBodyImportsFree(db, file_path, stmt) ==
    LET content == db.file_cache[file_path]
        function_line == get_line_from_offset(stmt.start, content)
        free == SelectSeq(stmt.body,
                          LAMBDA x : /\ x.e = "Name"
                                     /\ x.id \notin Elems(stmt.args)
                                     /\ x.id \notin
                                            module_names(db, file_path)
                                     /\ ~Shadowed(stmt, x))
    IN  [i \in DOMAIN free |->
           UndeclaredFixture(free[i].id, file_path, free[i].row,
                             stmt.name, function_line)]

\* the undeclared scan of one function: the names its body reads that are
\* no parameter of it, no import and no module-level name of the file
ScanFunctionBody(db, file_path, stmt) ==
    LET content == db.file_cache[file_path]
        function_line == get_line_from_offset(stmt.start, content)
        free == SelectSeq(stmt.body,
                          LAMBDA x : /\ x.e = "Name"
                                     /\ x.id \notin Elems(stmt.args)
                                     /\ x.id \notin imports(db, file_path)
                                     /\ x.id \notin
                                            module_names(db, file_path)
                                     /\ ~Shadowed(stmt, x))
    IN  [i \in DOMAIN free |->
           UndeclaredFixture(free[i].id, file_path, free[i].row,
                             stmt.name, function_line)]

\* the undeclared candidates of the functions of a file, in source order
RECURSIVE ScanBodies(_, _, _)
ScanBodies(db, file_path, body) ==
    IF body = <<>> THEN <<>>
    ELSE (IF Head(body).kind = "FunctionDef"
          THEN ScanFunctionBody(db, file_path, Head(body))
          ELSE <<>>)
         \o ScanBodies(db, file_path, Tail(body))

\* undeclared_fixtures[file_path]
undeclared_fixtures(db, file_path) ==
    ScanBodies(db, file_path, RecordedBody(db, file_path))

\* FixtureDatabase::get_undeclared_fixtures: the candidates whose name is
\* the name of a fixture visible from the file
get_undeclared_fixtures(db, file_path) ==
    LET available == get_available_fixtures(db, file_path)
    IN  SelectSeq(undeclared_fixtures(db, file_path),
                  LAMBDA u : \E i \in DOMAIN available :
                                 available[i].name = u.name)

-----------------------------------------------------------------------------
(* The state machine: every call runs without interruption.                *)

\* the threads that call analyze_file
Threads == {"t1", "t2"}

\* DashMap splits every map into shards, each behind its own RwLock
NShards == 2
LockMaps == {"file_cache", "usages", "definitions"}
Shards == LockMaps \X (1..NShards)

\* DashMap::determine_map: the shard the hash of a key selects
ShardOfPath(file_path) == IF file_path = <<"p", "conftest.py">> THEN 1 ELSE 2
ShardOfName(name) == IF name = <<"a">> THEN 1 ELSE 2

\* a lock nobody holds or waits for
FreeLock == [writer |-> None, readers |-> {}, parked |-> {}]

\* a thread that is in no call, and has made n calls
NoLockOps(n) == [ops |-> <<>>, made |-> n]

\* a thread that is in no call
IdleTask ==
    [pc |-> "idle", file_path |-> <<>>, content |-> <<>>, todo |-> {},
     pushes |-> <<>>, pre |-> None, alone |-> FALSE, canonical |-> <<>>]

Init ==
    /\ definitions = <<>>
    /\ usages = <<>>
    /\ file_cache = <<>>
    /\ result = NoResult
    /\ tasks = [t \in Threads |-> IdleTask]
    /\ calls = 0
    /\ canonical_path_cache = <<>>
    /\ linked = TRUE
    /\ canonicalized = <<>>
    /\ shards = [s \in Shards |-> FreeLock]
    /\ lock_ops = [t \in Threads |-> NoLockOps(0)]
    /\ writer_first = FALSE

\* the database the calls are made on
Index == [definitions |-> definitions, usages |-> usages,
          file_cache |-> file_cache]

\* every usage record in the index
AllUsages == UsagesIn(usages)

\* every definition in the index
AllDefinitions ==
    UNION {{definitions[n][i] : i \in 1..Len(definitions[n])} :
             n \in DOMAIN definitions}

\* db.analyze_file(file_path, content)
AnalyzeFile(file_path, content) ==
    LET new == analyze_file(Index, file_path, content)
    IN  /\ result = NoResult
        /\ definitions' = new.definitions
        /\ usages' = new.usages
        /\ file_cache' = new.file_cache
        /\ \A t \in Threads : tasks[t].pc = "idle"
        /\ UNCHANGED <<result, tasks, calls, pathvars, lockvars>>

\* get_file_content that keeps the text it read from the file system
get_file_content_inserting(db, file_path) ==
    [ret |-> ReadContent(db, file_path),
     file_cache |->
         IF file_path \notin DOMAIN db.file_cache /\ file_path \in DOMAIN Disk
         THEN MapInsert(db.file_cache, file_path, Disk[file_path])
         ELSE db.file_cache]

\* FixtureDatabase::get_file_content, and the same read at the head of
\* find_fixture_definition and find_fixture_at_position: the text returned
\* and the file cache the read leaves behind (neither branch inserts)
get_file_content(db, file_path) ==
    [ret |-> ReadContent(db, file_path), file_cache |-> db.file_cache]

\* db.find_fixture_definition(file_path, line, character)
FindFixtureDefinition(file_path, line, character) ==
    /\ result = NoResult
    /\ result' = [NoResult EXCEPT
                    !.op = "find_fixture_definition",
                    !.file_path = file_path,
                    !.line = line,
                    !.character = character,
                    !.ret = find_fixture_definition(Index, file_path,
                                                    line, character)]
    /\ file_cache' = get_file_content(Index, file_path).file_cache
    /\ UNCHANGED <<definitions, usages, tasks, calls, pathvars, lockvars>>

\* db.find_fixture_at_position(file_path, line, character)
FindFixtureAtPosition(file_path, line, character) ==
    /\ result = NoResult
    /\ result' = [NoResult EXCEPT
                    !.op = "find_fixture_at_position",
                    !.file_path = file_path,
                    !.line = line,
                    !.character = character,
                    !.ret = find_fixture_at_position(Index, file_path,
                                                     line, character)]
    /\ file_cache' = get_file_content(Index, file_path).file_cache
    /\ UNCHANGED <<definitions, usages, tasks, calls, pathvars, lockvars>>

\* db.find_references_for_definition(definition)
FindReferencesForDefinition(definition) ==
    /\ result = NoResult
    /\ result' = [NoResult EXCEPT
                    !.op = "find_references_for_definition",
                    !.definition = Some(definition),
                    !.ret = find_references_for_definition(Index, definition)]
    /\ UNCHANGED <<definitions, usages, file_cache, tasks, calls, pathvars, lockvars>>

\* db.find_fixture_references(fixture_name)
FindFixtureReferences(fixture_name) ==
    /\ result = NoResult
    /\ result' = [NoResult EXCEPT
                    !.op = "find_fixture_references",
                    !.args = Some(fixture_name),
                    !.ret = find_fixture_references(Index, fixture_name)]
    /\ UNCHANGED <<definitions, usages, file_cache, tasks, calls, pathvars, lockvars>>

\* db.get_file_content(file_path)
GetFileContent(file_path) ==
    LET got == get_file_content(Index, file_path)
    IN  /\ result = NoResult
        /\ result' = [NoResult EXCEPT
                        !.op = "get_file_content",
                        !.file_path = file_path,
                        !.ret = got.ret]
        /\ file_cache' = got.file_cache
        /\ UNCHANGED <<definitions, usages, tasks, calls, pathvars, lockvars>>

\* the caller takes the reply; the next call starts from the index alone
TakeResult ==
    /\ result # NoResult
    /\ result' = NoResult
    /\ UNCHANGED <<definitions, usages, file_cache, tasks, calls, pathvars, lockvars>>

Next ==
    \/ \E f \in Files : \E t \in Inputs(f) : AnalyzeFile(f, t)
    \/ \E f \in Files : \E l \in 0..MaxLine : \E c \in 0..MaxCol :
           FindFixtureDefinition(f, l, c)
    \/ \E f \in Files : \E l \in 0..MaxLine : \E c \in 0..MaxCol :
           FindFixtureAtPosition(f, l, c)
    \/ \E d \in AllDefinitions : FindReferencesForDefinition(d)
    \/ \E n \in {N_a, N_test} : FindFixtureReferences(n)
    \/ \E f \in Files : GetFileContent(f)
    \/ TakeResult

Spec == Init /\ [][Next]_vars

-----------------------------------------------------------------------------
(* The same calls on several threads. analyze_file takes no lock of its    *)
(* own: each operation on a DashMap locks one shard for its own duration,  *)
(* so the calls of other threads run between its statements.               *)

\* the files and texts of the concurrent calls
ConcFiles == {F_root, F_test}

ConcInputs(f) == IF f = F_test THEN {T_two, T_test, T_bad} ELSE Inputs(f)

\* analyze_file up to the parse: self.file_cache.insert(file_path, content)
StartAnalyze(t, file_path, content) ==
    /\ result = NoResult
    /\ tasks[t].pc = "idle"
    /\ calls < MaxCalls
    /\ calls' = calls + 1
    /\ file_cache' = MapInsert(file_cache, file_path, content)
    /\ tasks' = [o \in Threads |->
                   IF o = t
                   THEN [IdleTask EXCEPT
                           !.pc = "parse",
                           !.file_path = file_path,
                           !.content = content,
                           !.pre = Some(Index),
                           !.alone = \A q \in Threads \ {t} :
                                         tasks[q].pc = "idle"]
                   ELSE [tasks[o] EXCEPT !.pre = None, !.alone = FALSE]]
    /\ UNCHANGED <<definitions, usages, result, pathvars, lockvars>>

\* the parse fails: the early return
ParseFailReturn(t) ==
    /\ result = NoResult
    /\ tasks[t].pc = "parse"
    /\ ~ParseTable[tasks[t].content].ok
    /\ tasks' = [tasks EXCEPT ![t] = IdleTask]
    /\ UNCHANGED <<definitions, usages, file_cache, result, calls, pathvars, lockvars>>

\* the parse succeeds: self.usages.remove(&file_path), and the loop over
\* definitions.iter_mut() starts
RemoveUsages(t) ==
    /\ result = NoResult
    /\ tasks[t].pc = "parse"
    /\ ParseTable[tasks[t].content].ok
    /\ usages' = MapRemove(usages, tasks[t].file_path)
    /\ tasks' = [tasks EXCEPT
                   ![t].pc = "retain",
                   ![t].todo = DOMAIN definitions,
                   ![t].pushes = visit_body(ParseTable[tasks[t].content].body,
                                            tasks[t].file_path,
                                            tasks[t].content)]
    /\ UNCHANGED <<definitions, file_cache, result, calls, pathvars, lockvars>>

\* one round of the loop: the retain of one entry
RetainEntry(t, n) ==
    /\ result = NoResult
    /\ tasks[t].pc = "retain"
    /\ n \in tasks[t].todo
    /\ definitions' =
           IF n \in DOMAIN definitions
           THEN [definitions EXCEPT
                   ![n] = RetainOthers(@, tasks[t].file_path)]
           ELSE definitions
    /\ tasks' = [tasks EXCEPT ![t].todo = @ \ {n}]
    /\ UNCHANGED <<usages, file_cache, result, calls, pathvars, lockvars>>

\* self.definitions.retain(|_, defs| !defs.is_empty()); the call returns
\* here when the module has nothing to record
RemoveEmptyEntries(t) ==
    /\ result = NoResult
    /\ tasks[t].pc = "retain"
    /\ tasks[t].todo = {}
    /\ definitions' = RemoveEmpty(definitions)
    /\ tasks' = [tasks EXCEPT
                   ![t] = IF tasks[t].pushes = <<>> THEN IdleTask
                          ELSE [@ EXCEPT !.pc = "visit"]]
    /\ UNCHANGED <<usages, file_cache, result, calls, pathvars, lockvars>>

\* one push of visit_stmt; the call returns after the last one
VisitPush(t) ==
    LET new == ApplyPush(Index, Head(tasks[t].pushes))
    IN  /\ result = NoResult
        /\ tasks[t].pc = "visit"
        /\ definitions' = new.definitions
        /\ usages' = new.usages
        /\ tasks' = [tasks EXCEPT
                       ![t] = IF Tail(tasks[t].pushes) = <<>> THEN IdleTask
                              ELSE [@ EXCEPT !.pushes = Tail(@)]]
        /\ UNCHANGED <<file_cache, result, calls, pathvars, lockvars>>

NextConc ==
    \/ \E t \in Threads : \E f \in ConcFiles : \E c \in ConcInputs(f) :
           StartAnalyze(t, f, c)
    \/ \E t \in Threads : ParseFailReturn(t)
    \/ \E t \in Threads : RemoveUsages(t)
    \/ \E t \in Threads : \E n \in tasks[t].todo : RetainEntry(t, n)
    \/ \E t \in Threads : RemoveEmptyEntries(t)
    \/ \E t \in Threads : VisitPush(t)
    \/ \E l \in 0..MaxLine : \E c \in 0..MaxCol :
           FindFixtureDefinition(F_test, l, c)
    \/ TakeResult

SpecConc == Init /\ [][NextConc]_vars

-----------------------------------------------------------------------------
(* The calls of the completion and diagnostic providers: the files are     *)
(* analyzed and asked for their visible and undeclared fixtures.           *)

\* the texts each file is analyzed with
DiagInputs(f) ==
    CASE f = F_root -> {T_def}
      [] f = F_sub -> {T_self}
      [] f = F_test -> {T_two, T_free, T_declared, T_imported, T_assigned,
                        T_direct, T_shadow, T_same_line}
      [] f = F_oth -> {T_def}
      [] f = F_plug -> {T_def}

\* db.get_available_fixtures(file_path)
GetAvailableFixtures(file_path) ==
    /\ result = NoResult
    /\ result' = [NoResult EXCEPT
                    !.op = "get_available_fixtures",
                    !.file_path = file_path,
                    !.ret = get_available_fixtures(Index, file_path)]
    /\ UNCHANGED <<definitions, usages, file_cache, tasks, calls, pathvars, lockvars>>

\* db.get_undeclared_fixtures(file_path)
GetUndeclaredFixtures(file_path) ==
    /\ result = NoResult
    /\ result' = [NoResult EXCEPT
                    !.op = "get_undeclared_fixtures",
                    !.file_path = file_path,
                    !.ret = get_undeclared_fixtures(Index, file_path)]
    /\ UNCHANGED <<definitions, usages, file_cache, tasks, calls, pathvars, lockvars>>

NextDiag ==
    \/ \E f \in Files : \E t \in DiagInputs(f) : AnalyzeFile(f, t)
    \/ \E f \in Files : GetAvailableFixtures(f)
    \/ \E f \in Files : GetUndeclaredFixtures(f)
    \/ TakeResult

SpecDiag == Init /\ [][NextDiag]_vars

-----------------------------------------------------------------------------
(* The completion provider (providers/completion.rs): which of the         *)
(* available fixtures are offered, and with which detail and sort text.    *)

\* "cls", "b" as Strings
N_cls == <<"c", "l", "s">>
N_b == <<"b">>

\* FixtureScope, and the order its comparison uses:
\* Function(0) < Class(1) < Module(2) < Package(3) < Session(4)
FixtureScope == {"function", "class", "module", "package", "session"}

ScopeRank ==
    ("function" :> 0) @@ ("class" :> 1) @@ ("module" :> 2)
    @@ ("package" :> 3) @@ ("session" :> 4)

\* FixtureScope::as_str
as_str(scope) ==
    CASE scope = "function" -> <<"f", "u", "n", "c", "t", "i", "o", "n">>
      [] scope = "class" -> <<"c", "l", "a", "s", "s">>
      [] scope = "module" -> <<"m", "o", "d", "u", "l", "e">>
      [] scope = "package" -> <<"p", "a", "c", "k", "a", "g", "e">>
      [] scope = "session" -> <<"s", "e", "s", "s", "i", "o", "n">>

\* the fields of a FixtureDefinition that the completion provider reads
CompletionFixture(name, scope, file_path, is_third_party, is_plugin) ==
    [name |-> name, scope |-> scope, file_path |-> file_path,
     is_third_party |-> is_third_party, is_plugin |-> is_plugin]

\* const EXCLUDED_PARAM_NAMES
EXCLUDED_PARAM_NAMES == <<N_self, N_cls>>

\* slice::contains
Contains(slice, x) == \E i \in DOMAIN slice : slice[i] = x

\* the scope rule that also excludes the candidates of the same scope
should_exclude_fixture_or_equal(fixture, current_scope) ==
    IF current_scope = None THEN FALSE
    ELSE ScopeRank[fixture.scope] <= ScopeRank[current_scope[1]]

\* should_exclude_fixture
should_exclude_fixture(fixture, current_scope) ==
    IF current_scope = None THEN FALSE
    ELSE ScopeRank[fixture.scope] < ScopeRank[current_scope[1]]

\* the exclusion that does not look at the declared parameters
is_fixture_excluded_ignoring_params(fixture, declared_params, fixture_scope, current_fixture_name) ==
    IF Contains(EXCLUDED_PARAM_NAMES, fixture.name) THEN TRUE
    ELSE IF current_fixture_name # None
            /\ fixture.name = current_fixture_name[1] THEN TRUE
    ELSE should_exclude_fixture(fixture, fixture_scope)

\* is_fixture_excluded
is_fixture_excluded(fixture, declared_params, fixture_scope, current_fixture_name) ==
    IF Contains(EXCLUDED_PARAM_NAMES, fixture.name) THEN TRUE
    ELSE IF current_fixture_name # None
            /\ fixture.name = current_fixture_name[1] THEN TRUE
    ELSE IF declared_params # None
            /\ Contains(declared_params[1], fixture.name) THEN TRUE
    ELSE should_exclude_fixture(fixture, fixture_scope)

\* fixture_sort_priority that looks at is_plugin before is_third_party
fixture_sort_priority_plugin_first(fixture, current_file) ==
    IF fixture.file_path = current_file THEN 0
    ELSE IF fixture.is_plugin THEN 2
    ELSE IF fixture.is_third_party THEN 3
    ELSE 1

\* fixture_sort_priority
fixture_sort_priority(fixture, current_file) ==
    IF fixture.file_path = current_file THEN 0
    ELSE IF fixture.is_third_party THEN 3
    ELSE IF fixture.is_plugin THEN 2
    ELSE 1

\* the decimal digits of a u8 below 10, as format!("{}") prints it
Digits(n) == <<<<"0">>, <<"1">>, <<"2">>, <<"3">>, <<"4">>, <<"5">>,
               <<"6">>, <<"7">>, <<"8">>, <<"9">>>>[n + 1]

\* make_sort_text: format!("{}_{}", priority, fixture_name)
make_sort_text(priority, fixture_name) ==
    Digits(priority) \o <<"_">> \o fixture_name

\* [String]::join(sep)
RECURSIVE JoinWith(_, _)
JoinWith(parts, sep) ==
    IF parts = <<>> THEN <<>>
    ELSE IF Len(parts) = 1 THEN Head(parts)
    ELSE Head(parts) \o sep \o JoinWith(Tail(parts), sep)

\* make_fixture_detail
make_fixture_detail(fixture) ==
    LET scope_part ==
            IF fixture.scope # "function"
            THEN <<(<<"(">> \o as_str(fixture.scope) \o <<")">>)>>
            ELSE <<>>
        origin_part ==
            IF fixture.is_third_party
            THEN << <<"[", "t", "h", "i", "r", "d", "-",
                      "p", "a", "r", "t", "y", "]">> >>
            ELSE IF fixture.is_plugin
            THEN << <<"[", "p", "l", "u", "g", "i", "n", "]">> >>
            ELSE <<>>
    IN  JoinWith(scope_part \o origin_part, <<" ">>)

\* struct EnrichedFixture
EnrichedFixture(fixture, detail, sort_text) ==
    [fixture |-> fixture, detail |-> detail, sort_text |-> sort_text]

\* filter_and_enrich_fixtures: filter, then map, then collect
RECURSIVE filter_and_enrich_fixtures(_, _, _, _, _)
filter_and_enrich_fixtures(available, file_path, declared_params, fixture_scope, current_fixture_name) ==
    IF available = <<>> THEN <<>>
    ELSE LET f == Head(available)
             rest == filter_and_enrich_fixtures(Tail(available), file_path,
                                                declared_params,
                                                fixture_scope,
                                                current_fixture_name)
         IN  IF is_fixture_excluded(f, declared_params, fixture_scope,
                                    current_fixture_name)
             THEN rest
             ELSE <<EnrichedFixture(
                        f, make_fixture_detail(f),
                        make_sort_text(fixture_sort_priority(f, file_path),
                                       f.name))>> \o rest

\* the longest list of available fixtures the provider is called with
MaxAvailable == 3

\* the fixtures the exclusion rules are asked about
CandidateFixtures ==
    {CompletionFixture(n, s, F_root, FALSE, FALSE) :
        n \in {N_a, N_b, N_self, N_cls}, s \in FixtureScope}
    \cup {CompletionFixture(N_a, "module", fp, tp, pl) :
            fp \in {F_root, F_test}, tp \in BOOLEAN, pl \in BOOLEAN}

\* the fixtures of the lists of available fixtures
AvailablePool ==
    {CompletionFixture(N_a, "function", F_root, FALSE, FALSE),
     CompletionFixture(N_b, "session", F_test, FALSE, TRUE),
     CompletionFixture(N_self, "function", F_root, FALSE, FALSE),
     CompletionFixture(N_a, "module", F_plug, TRUE, FALSE)}

AvailableLists ==
    UNION {[1..n -> AvailablePool] : n \in 0..MaxAvailable}

\* Option<FixtureScope>, Option<&[String]> and Option<&str> arguments
ScopeOptions == {None} \cup {Some(s) : s \in FixtureScope}
ParamOptions == {None, Some(<<>>), Some(<<N_a>>), Some(<<N_b, N_a>>)}
NameOptions == {None, Some(N_a), Some(N_b)}

\* should_exclude_fixture(&fixture, current_scope)
ShouldExcludeFixture(fixture, current_scope) ==
    /\ result = NoResult
    /\ result' = [NoResult EXCEPT
                    !.op = "should_exclude_fixture",
                    !.definition = Some(fixture),
                    !.args = [fixture_scope |-> current_scope],
                    !.ret = should_exclude_fixture(fixture, current_scope)]
    /\ UNCHANGED <<definitions, usages, file_cache, tasks, calls, pathvars, lockvars>>

\* is_fixture_excluded(&fixture, declared_params, fixture_scope, name)
IsFixtureExcluded(fixture, declared_params, fixture_scope, current_fixture_name) ==
    /\ result = NoResult
    /\ result' = [NoResult EXCEPT
                    !.op = "is_fixture_excluded",
                    !.definition = Some(fixture),
                    !.args = [declared_params |-> declared_params,
                              fixture_scope |-> fixture_scope,
                              current_fixture_name |-> current_fixture_name],
                    !.ret = is_fixture_excluded(fixture, declared_params,
                                                fixture_scope,
                                                current_fixture_name)]
    /\ UNCHANGED <<definitions, usages, file_cache, tasks, calls, pathvars, lockvars>>

\* filter_and_enrich_fixtures(available, file_path, declared_params,
\* fixture_scope, name)
FilterAndEnrichFixtures(available, file_path, declared_params, fixture_scope, current_fixture_name) ==
    /\ result = NoResult
    /\ result' = [NoResult EXCEPT
                    !.op = "filter_and_enrich_fixtures",
                    !.file_path = file_path,
                    !.args = [available |-> available,
                              declared_params |-> declared_params,
                              fixture_scope |-> fixture_scope,
                              current_fixture_name |-> current_fixture_name],
                    !.ret = filter_and_enrich_fixtures(
                                available, file_path, declared_params,
                                fixture_scope, current_fixture_name)]
    /\ UNCHANGED <<definitions, usages, file_cache, tasks, calls, pathvars, lockvars>>

\* the names sort texts are made of
SortNames == {N_a, N_b, <<"a", "a">>, <<"a", "b">>, <<"a", "_">>}

\* fixture_sort_priority(&fixture, current_file)
FixtureSortPriority(fixture, current_file) ==
    /\ result = NoResult
    /\ result' = [NoResult EXCEPT
                    !.op = "fixture_sort_priority",
                    !.file_path = current_file,
                    !.definition = Some(fixture),
                    !.ret = fixture_sort_priority(fixture, current_file)]
    /\ UNCHANGED <<definitions, usages, file_cache, tasks, calls, pathvars, lockvars>>

\* make_sort_text(priority, fixture_name)
MakeSortText(priority, fixture_name) ==
    /\ result = NoResult
    /\ result' = [NoResult EXCEPT
                    !.op = "make_sort_text",
                    !.args = [priority |-> priority,
                              fixture_name |-> fixture_name],
                    !.ret = make_sort_text(priority, fixture_name)]
    /\ UNCHANGED <<definitions, usages, file_cache, tasks, calls, pathvars, lockvars>>

NextCompletion ==
    \/ \E fx \in CandidateFixtures : \E s \in ScopeOptions :
           ShouldExcludeFixture(fx, s)
    \/ \E fx \in CandidateFixtures : \E p \in ParamOptions :
       \E s \in ScopeOptions : \E n \in NameOptions :
           IsFixtureExcluded(fx, p, s, n)
    \/ \E av \in AvailableLists : \E p \in ParamOptions :
       \E s \in ScopeOptions : \E n \in NameOptions :
           FilterAndEnrichFixtures(av, F_test, p, s, n)
    \/ \E fx \in CandidateFixtures : \E f \in {F_root, F_test} :
           FixtureSortPriority(fx, f)
    \/ \E p \in 0..3 : \E n \in SortNames : MakeSortText(p, n)
    \/ TakeResult

SpecCompletion == Init /\ [][NextCompletion]_vars

-----------------------------------------------------------------------------
(* The canonical-path cache (fixtures/mod.rs). get_canonical_path takes no *)
(* lock of its own: the lookup and the insert each lock the map for their  *)
(* own duration, and the file system is read between them.                 *)

\* /l/conftest.py: /p/conftest.py reached through the symbolic link /l
F_alias == <<"l", "conftest.py">>

\* the raw paths get_canonical_path is called with
RawPaths == {F_root, F_alias, F_test}

\* Path::canonicalize: the path with its links resolved, or an error (None)
\* when a component does not exist
canonicalize(path, is_linked) ==
    IF Head(path) = "l"
    THEN (IF is_linked THEN Some(<<"p">> \o Tail(path)) ELSE None)
    ELSE Some(path)

\* path.canonicalize().unwrap_or_else(|_| path.clone())
CanonicalOrRaw(path, is_linked) ==
    IF canonicalize(path, is_linked) = None THEN path
    ELSE canonicalize(path, is_linked)[1]

\* how often Path::canonicalize ran for a raw path
CanonicalizedCount(path) ==
    IF path \in DOMAIN canonicalized THEN canonicalized[path] ELSE 0

\* get_canonical_path, the cache holds the path: the cached value is returned
CachedReturn(t, path) ==
    /\ result = NoResult
    /\ tasks[t].pc = "idle"
    /\ path \in DOMAIN canonical_path_cache
    /\ result' = [NoResult EXCEPT
                    !.op = "get_canonical_path",
                    !.file_path = path,
                    !.ret = canonical_path_cache[path]]
    /\ UNCHANGED <<definitions, usages, file_cache, tasks, calls, pathvars, lockvars>>

\* get_canonical_path, the cache does not hold the path
CacheMiss(t, path) ==
    /\ result = NoResult
    /\ tasks[t].pc = "idle"
    /\ path \notin DOMAIN canonical_path_cache
    /\ tasks' = [tasks EXCEPT ![t] = [IdleTask EXCEPT
                                        !.pc = "canonicalize",
                                        !.file_path = path]]
    /\ UNCHANGED <<definitions, usages, file_cache, result, calls, pathvars, lockvars>>

\* let canonical = path.canonicalize().unwrap_or_else(..)
Canonicalize(t) ==
    /\ tasks[t].pc = "canonicalize"
    /\ tasks' = [tasks EXCEPT
                   ![t].pc = "insert",
                   ![t].canonical = CanonicalOrRaw(tasks[t].file_path, linked)]
    /\ canonicalized' =
           MapInsert(canonicalized, tasks[t].file_path,
                     CanonicalizedCount(tasks[t].file_path) + 1)
    /\ UNCHANGED <<definitions, usages, file_cache, result, calls,
                   canonical_path_cache, linked, lockvars>>

\* self.canonical_path_cache.insert(path, canonical.clone()), and return
CacheInsert(t) ==
    /\ tasks[t].pc = "insert"
    /\ canonical_path_cache' =
           MapInsert(canonical_path_cache, tasks[t].file_path,
                     tasks[t].canonical)
    /\ tasks' = [tasks EXCEPT ![t] = IdleTask]
    /\ UNCHANGED <<definitions, usages, file_cache, result, calls,
                   linked, canonicalized, lockvars>>

\* another process creates or removes the symbolic link /l
Relink ==
    /\ linked' = ~linked
    /\ UNCHANGED <<definitions, usages, file_cache, result, tasks, calls,
                   canonical_path_cache, canonicalized, lockvars>>

NextCanon ==
    \/ \E t \in Threads : \E p \in RawPaths : CachedReturn(t, p)
    \/ \E t \in Threads : \E p \in RawPaths : CacheMiss(t, p)
    \/ \E t \in Threads : Canonicalize(t)
    \/ \E t \in Threads : CacheInsert(t)
    \/ Relink
    \/ TakeResult

SpecCanon == Init /\ [][NextCanon]_vars

-----------------------------------------------------------------------------
(* Files analyzed under several raw paths: /l is a symbolic link to /p,    *)
(* so /l/conftest.py and /p/conftest.py are one file.                      *)

\* the paths the calls are made with
AliasFiles == {F_root, F_alias, F_test}

\* the texts each of them is analyzed with
AliasInputs(f) ==
    IF f = F_test THEN {T_test} ELSE {T_def, T_self}

NextAlias ==
    \/ \E f \in AliasFiles : \E t \in AliasInputs(f) : AnalyzeFile(f, t)
    \/ \E f \in AliasFiles : \E l \in 0..MaxLine : \E c \in 0..MaxCol :
           FindFixtureDefinition(f, l, c)
    \/ TakeResult

SpecAlias == Init /\ [][NextAlias]_vars

-----------------------------------------------------------------------------
(* The shard locks. Every DashMap call takes the RwLock of the shard of    *)
(* its key; SpecLock follows, per thread, the guards a call takes and      *)
(* drops, in the order of its statements.                                  *)

\* how many calls a thread makes
MaxLockCalls == 2

LockOp(op, map, shard, mode) ==
    [op |-> op, map |-> map, shard |-> shard, mode |-> mode]

\* a guard that is dropped at the end of its statement: get().clone(),
\* insert, remove, entry().or_default().push()
Guarded(map, shard, mode) ==
    <<LockOp("acquire", map, shard, mode), LockOp("release", map, shard, mode)>>

\* iter_mut() and retain(): the shards in turn, one write guard at a time
RECURSIVE EveryShard(_, _)
EveryShard(map, shard) ==
    IF shard > NShards THEN <<>>
    ELSE Guarded(map, shard, "write") \o EveryShard(map, shard + 1)

\* the guards of the visitor's pushes
RECURSIVE PushLocks(_)
PushLocks(ps) ==
    IF ps = <<>> THEN <<>>
    ELSE (IF Head(ps).op = "def"
          THEN Guarded("definitions", ShardOfName(Head(ps).rec.name), "write")
          ELSE Guarded("usages", ShardOfPath(Head(ps).rec.file_path),
                       "write"))
         \o PushLocks(Tail(ps))

\* analyze_file that removes the usages of the file inside the iter_mut
\* loop, under the write guard of the first definitions shard
analyze_file_locks_nested(file_path, content) ==
    Guarded("file_cache", ShardOfPath(file_path), "write")
    \o (IF ~ParseTable[content].ok THEN <<>>
        ELSE <<LockOp("acquire", "definitions", 1, "write")>>
             \o Guarded("usages", ShardOfPath(file_path), "write")
             \o <<LockOp("release", "definitions", 1, "write")>>
             \o EveryShard("definitions", 2)
             \o EveryShard("definitions", 1)
             \o PushLocks(visit_body(ParseTable[content].body, file_path,
                                     content)))

\* the guards of FixtureDatabase::analyze_file: file_cache.insert, the
\* return at a parse error, usages.remove, definitions.iter_mut(),
\* definitions.retain, the pushes of visit_stmt
analyze_file_locks(file_path, content) ==
    Guarded("file_cache", ShardOfPath(file_path), "write")
    \o (IF ~ParseTable[content].ok THEN <<>>
        ELSE Guarded("usages", ShardOfPath(file_path), "write")
             \o EveryShard("definitions", 1)
             \o EveryShard("definitions", 1)
             \o PushLocks(visit_body(ParseTable[content].body, file_path,
                                     content)))

\* the guards of FixtureDatabase::find_fixture_definition: file_cache.get,
\* then usages.get whose guard lives through the loop, inside of which
\* find_closest_definition takes definitions.get when a usage matches
\* (hit = the name of that usage)
find_fixture_definition_locks(file_path, hit) ==
    Guarded("file_cache", ShardOfPath(file_path), "read")
    \o <<LockOp("acquire", "usages", ShardOfPath(file_path), "read")>>
    \o (IF hit = None THEN <<>>
        ELSE Guarded("definitions", ShardOfName(hit[1]), "read"))
    \o <<LockOp("release", "usages", ShardOfPath(file_path), "read")>>

\* RawRwLock: whether thread t gets the lock now
CanAcquire(t, o) ==
    LET l == shards[<<o.map, o.shard>>]
    IN  IF o.mode = "write"
        THEN l.writer = None /\ l.readers = {}
        ELSE l.writer = None /\ (writer_first => l.parked = {})

\* the operation a thread is at
AtLockOp(t, op) ==
    lock_ops[t].ops # <<>> /\ Head(lock_ops[t].ops).op = op

\* a thread waits for a lock it cannot get
Blocked(t) ==
    AtLockOp(t, "acquire") /\ ~CanAcquire(t, Head(lock_ops[t].ops))

\* the analyses and the queries the threads make
LockAnalyses == {<<F_root, T_def>>, <<F_test, T_test>>, <<F_test, T_bad>>}
LockQueries == {F_root, F_test} \X {None, Some(N_a)}

\* a thread calls analyze_file
LockCallAnalyze(t, file_path, content) ==
    /\ lock_ops[t].ops = <<>>
    /\ lock_ops[t].made < MaxLockCalls
    /\ lock_ops' = [lock_ops EXCEPT
                      ![t] = [ops |-> analyze_file_locks(file_path, content),
                              made |-> @.made + 1]]
    /\ UNCHANGED <<definitions, usages, file_cache, result, tasks, calls,
                   pathvars, shards, writer_first>>

\* a thread calls find_fixture_definition
LockCallQuery(t, file_path, hit) ==
    /\ lock_ops[t].ops = <<>>
    /\ lock_ops[t].made < MaxLockCalls
    /\ lock_ops' = [lock_ops EXCEPT
                      ![t] = [ops |-> find_fixture_definition_locks(file_path,
                                                                    hit),
                              made |-> @.made + 1]]
    /\ UNCHANGED <<definitions, usages, file_cache, result, tasks, calls,
                   pathvars, shards, writer_first>>

\* lock_shared / lock_exclusive succeeds
LockAcquire(t) ==
    /\ AtLockOp(t, "acquire")
    /\ CanAcquire(t, Head(lock_ops[t].ops))
    /\ LET o == Head(lock_ops[t].ops)
       IN  shards' = [shards EXCEPT
                        ![<<o.map, o.shard>>] =
                            IF o.mode = "write"
                            THEN [@ EXCEPT !.writer = Some(t),
                                           !.parked = @ \ {t}]
                            ELSE [@ EXCEPT !.readers = @ \cup {t}]]
    /\ lock_ops' = [lock_ops EXCEPT ![t].ops = Tail(@)]
    /\ UNCHANGED <<definitions, usages, file_cache, result, tasks, calls,
                   pathvars, writer_first>>

\* lock_exclusive finds the lock taken: the writer parks
LockPark(t) ==
    /\ Blocked(t)
    /\ LET o == Head(lock_ops[t].ops)
       IN  /\ o.mode = "write"
           /\ t \notin shards[<<o.map, o.shard>>].parked
           /\ shards' = [shards EXCEPT
                           ![<<o.map, o.shard>>].parked = @ \cup {t}]
    /\ UNCHANGED <<definitions, usages, file_cache, result, tasks, calls,
                   pathvars, lock_ops, writer_first>>

\* the guard is dropped
LockRelease(t) ==
    /\ AtLockOp(t, "release")
    /\ LET o == Head(lock_ops[t].ops)
       IN  shards' = [shards EXCEPT
                        ![<<o.map, o.shard>>] =
                            IF o.mode = "write"
                            THEN [@ EXCEPT !.writer = None]
                            ELSE [@ EXCEPT !.readers = @ \ {t}]]
    /\ lock_ops' = [lock_ops EXCEPT ![t].ops = Tail(@)]
    /\ UNCHANGED <<definitions, usages, file_cache, result, tasks, calls,
                   pathvars, writer_first>>

\* the lock of the build prefers parked writers to new readers
ChoosePolicy ==
    /\ ~writer_first
    /\ \A t \in Threads : lock_ops[t] = NoLockOps(0)
    /\ writer_first' = TRUE
    /\ UNCHANGED <<definitions, usages, file_cache, result, tasks, calls,
                   pathvars, shards, lock_ops>>

\* what a thread does inside a call
LockStep(t) == LockAcquire(t) \/ LockPark(t) \/ LockRelease(t)

NextLock ==
    \/ \E t \in Threads : \E a \in LockAnalyses :
           LockCallAnalyze(t, a[1], a[2])
    \/ \E t \in Threads : \E q \in LockQueries : LockCallQuery(t, q[1], q[2])
    \/ \E t \in Threads : LockAcquire(t)
    \/ \E t \in Threads : LockPark(t)
    \/ \E t \in Threads : LockRelease(t)
    \/ ChoosePolicy

\* every thread inside a call is scheduled again and again
SpecLock ==
    Init /\ [][NextLock]_vars /\ \A t \in Threads : WF_vars(LockStep(t))

-----------------------------------------------------------------------------
(* extract_word_at_position on its own: SpecWord applies it to every line  *)
(* of the texts and every column up to MaxCol.                             *)

WordLines ==
    {L_decorator, L_def_a, L_def_a_a, L_test, L_test_open, L_param,
     L_test_none, L_read_a, L_import, L_assign, L_bind_a, L_rebind_a,
     L_bad, <<>>}

\* db.extract_word_at_position(line, character)
ExtractWordAtPosition(line, character) ==
    /\ result = NoResult
    /\ result' = [NoResult EXCEPT
                    !.op = "extract_word_at_position",
                    !.args = [line |-> line],
                    !.character = character,
                    !.ret = extract_word_at_position(line, character)]
    /\ UNCHANGED <<definitions, usages, file_cache, tasks, calls, pathvars,
                   lockvars>>

NextWord ==
    \/ \E line \in WordLines : \E c \in 0..MaxCol :
           ExtractWordAtPosition(line, c)
    \/ TakeResult

SpecWord == Init /\ [][NextWord]_vars

-----------------------------------------------------------------------------
(* The coordinates of a query are u32. A u32 is kept as its two 16-bit     *)
(* halves, so that every value up to 2^32 - 1 can be written down and      *)
(* line + 1 is computed in the width of the type.                          *)

Half == 65536
U32(hi, lo) == [hi |-> hi, lo |-> lo]
U32Max == U32(Half - 1, Half - 1)

\* a + 1 in 32 bits: the wrapped sum, and whether it overflowed
u32_add_one(a) ==
    IF a.lo + 1 < Half THEN [overflow |-> FALSE, value |-> U32(a.hi, a.lo + 1)]
    ELSE IF a.hi + 1 < Half
    THEN [overflow |-> FALSE, value |-> U32(a.hi + 1, 0)]
    ELSE [overflow |-> TRUE, value |-> U32(0, 0)]

\* `let target_line = (line + 1) as usize`: an overflowing + panics in a
\* build with overflow checks (debug, test) and wraps in one without
target_line_of(line, overflow_checks) ==
    LET sum == u32_add_one(line)
    IN  [panicked |-> sum.overflow /\ overflow_checks, value |-> sum.value]

\* `character as usize`; every value of 2^16 and more is past the end of
\* every line of the texts, where it is only compared with chars.len()
character_as_usize(character) ==
    IF character.hi = 0 THEN character.lo ELSE Half

\* find_fixture_definition called with u32 coordinates: target_line is
\* computed first, the rest as find_fixture_definition; a target_line of 0
\* or of more than the number of lines returns None
find_fixture_definition_u32(db, file_path, line, character, overflow_checks) ==
    LET t == target_line_of(line, overflow_checks)
    IN  IF t.panicked THEN [panicked |-> TRUE, ret |-> None]
        ELSE IF t.value.hi = 0 /\ t.value.lo >= 1
        THEN [panicked |-> FALSE,
              ret |-> find_fixture_definition(db, file_path, t.value.lo - 1,
                                              character_as_usize(character))]
        ELSE [panicked |-> FALSE, ret |-> None]

\* find_fixture_at_position called with u32 coordinates
find_fixture_at_position_u32(db, file_path, line, character, overflow_checks) ==
    LET t == target_line_of(line, overflow_checks)
    IN  IF t.panicked THEN [panicked |-> TRUE, ret |-> None]
        ELSE IF t.value.hi = 0 /\ t.value.lo >= 1
        THEN [panicked |-> FALSE,
              ret |-> find_fixture_at_position(db, file_path, t.value.lo - 1,
                                               character_as_usize(character))]
        ELSE [panicked |-> FALSE, ret |-> None]

\* the coordinates the queries are called with
CoordLines ==
    {U32(0, 0), U32(0, 1), U32(0, MaxLine), U32(0, Half - 1), U32(1, 0),
     U32(Half - 1, Half - 2), U32Max}
CoordCharacters == {U32(0, 0), U32(0, 4), U32(0, MaxCol), U32Max}
CoordFiles == {F_root, F_test, F_plug}
CoordInputs(f) ==
    CASE f = F_root -> {T_def}
      [] f = F_test -> {T_test, T_two}
      [] f = F_plug -> {T_def}

\* db.find_fixture_definition(file_path, line, character) in a build with
\* or without overflow checks
FindFixtureDefinitionU32(file_path, line, character, overflow_checks) ==
    LET out == find_fixture_definition_u32(Index, file_path, line, character,
                                           overflow_checks)
    IN  /\ result = NoResult
        /\ result' = [NoResult EXCEPT
                        !.op = "find_fixture_definition_u32",
                        !.file_path = file_path,
                        !.args = [line |-> line, character |-> character,
                                  overflow_checks |-> overflow_checks,
                                  panicked |-> out.panicked],
                        !.ret = out.ret]
        /\ UNCHANGED <<definitions, usages, file_cache, tasks, calls,
                       pathvars, lockvars>>

\* db.find_fixture_at_position(file_path, line, character), likewise
FindFixtureAtPositionU32(file_path, line, character, overflow_checks) ==
    LET out == find_fixture_at_position_u32(Index, file_path, line, character,
                                            overflow_checks)
    IN  /\ result = NoResult
        /\ result' = [NoResult EXCEPT
                        !.op = "find_fixture_at_position_u32",
                        !.file_path = file_path,
                        !.args = [line |-> line, character |-> character,
                                  overflow_checks |-> overflow_checks,
                                  panicked |-> out.panicked],
                        !.ret = out.ret]
        /\ UNCHANGED <<definitions, usages, file_cache, tasks, calls,
                       pathvars, lockvars>>

NextCoord ==
    \/ \E f \in CoordFiles : \E t \in CoordInputs(f) : AnalyzeFile(f, t)
    \/ \E f \in CoordFiles : \E l \in CoordLines : \E c \in CoordCharacters :
       \E oc \in BOOLEAN : FindFixtureDefinitionU32(f, l, c, oc)
    \/ \E f \in CoordFiles : \E l \in CoordLines : \E c \in CoordCharacters :
       \E oc \in BOOLEAN : FindFixtureAtPositionU32(f, l, c, oc)
    \/ TakeResult

SpecCoord == Init /\ [][NextCoord]_vars

-----------------------------------------------------------------------------
(* visit_stmt on its own: SpecVisit applies it to function definitions     *)
(* with every parameter list of up to MaxParams names.                     *)

MaxParams == 2

ParamNames == {N_a, N_self, N_cls, N_request}

\* the parameter lists: the sequences of ParamNames of up to MaxParams names
ParamLists ==
    UNION {[1..n -> ParamNames] : n \in 0..MaxParams}

\* one function definition on the first line of a text
VisitedStmt(kind, name, decorators, args) ==
    [FunctionDef(name, decorators, args, T_test, 1) EXCEPT !.kind = kind]

\* self.visit_stmt(stmt, &file_path, is_conftest, content)
VisitStmt(kind, name, decorators, args) ==
    /\ result = NoResult
    /\ result' = [NoResult EXCEPT
                    !.op = "visit_stmt",
                    !.file_path = F_test,
                    !.args = VisitedStmt(kind, name, decorators, args),
                    !.ret = visit_stmt(VisitedStmt(kind, name, decorators,
                                                   args),
                                       F_test, T_test)]
    /\ UNCHANGED <<definitions, usages, file_cache, tasks, calls, pathvars,
                   lockvars>>

NextVisit ==
    \/ \E kind \in {"FunctionDef", "AsyncFunctionDef"} :
       \E name \in {N_a, N_test} :
       \E decorators \in {<<>>, <<E_fixture>>} :
       \E args \in ParamLists :
           VisitStmt(kind, name, decorators, args)
    \/ TakeResult

SpecVisit == Init /\ [][NextVisit]_vars

-----------------------------------------------------------------------------
(* Files whose fixtures and tests are methods of a class: SpecClass        *)
(* analyzes them next to files with module-level functions.                *)

ClassFiles == {F_root, F_test}
ClassInputs(f) ==
    CASE f = F_root -> {T_def, T_class}
      [] f = F_test -> {T_test, T_class}

NextClass ==
    \/ \E f \in ClassFiles : \E t \in ClassInputs(f) : AnalyzeFile(f, t)
    \/ \E f \in ClassFiles : \E l \in 0..MaxLine : \E c \in 0..MaxCol :
           FindFixtureDefinition(f, l, c)
    \/ TakeResult

SpecClass == Init /\ [][NextClass]_vars

-----------------------------------------------------------------------------
(* scan_workspace: the walk over the files under the root, then the scan   *)
(* of the plugins of the virtual environment. SpecScan runs it on a fixed  *)
(* file tree.                                                             *)

\* the characters of the names of the tree
NameChars(name) ==
    CASE name = "p" ->
           <<"p">>
      [] name = "s" ->
           <<"s">>
      [] name = ".venv" ->
           <<".", "v", "e", "n", "v">>
      [] name = ".git" ->
           <<".", "g", "i", "t">>
      [] name = "lib" ->
           <<"l", "i", "b">>
      [] name = "python3" ->
           <<"p", "y", "t", "h", "o", "n", "3">>
      [] name = "site-packages" ->
           <<"s", "i", "t", "e", "-", "p", "a", "c", "k", "a", "g", "e", "s">>
      [] name = "pytest_m" ->
           <<"p", "y", "t", "e", "s", "t", "_", "m">>
      [] name = "pkg" ->
           <<"p", "k", "g">>
      [] name = "conftest.py" ->
           <<"c", "o", "n", "f", "t", "e", "s", "t", ".", "p", "y">>
      [] name = "test_x.py" ->
           <<"t", "e", "s", "t", "_", "x", ".", "p", "y">>
      [] name = "x_test.py" ->
           <<"x", "_", "t", "e", "s", "t", ".", "p", "y">>
      [] name = "u_test.py" ->
           <<"u", "_", "t", "e", "s", "t", ".", "p", "y">>
      [] name = "x.py" ->
           <<"x", ".", "p", "y">>
      [] name = "plugin.py" ->
           <<"p", "l", "u", "g", "i", "n", ".", "p", "y">>

\* str::ends_with, str::contains
StrEndsWith(s, p) ==
    Len(s) >= Len(p) /\ SubSeq(s, Len(s) - Len(p) + 1, Len(s)) = p
StrContains(s, p) ==
    \E i \in 0..(Len(s) - Len(p)) : SubSeq(s, i + 1, i + Len(p)) = p

Dot_py == <<".", "p", "y">>
Test_py == <<"_", "t", "e", "s", "t", ".", "p", "y">>

\* the files of the disk under /p: what read_to_string gives for each, None
\* for a file that cannot be read
S_conftest == <<"p", "conftest.py">>
S_test == <<"p", "s", "test_x.py">>
S_suffix == <<"p", "s", "x_test.py">>
S_unreadable == <<"p", "s", "u_test.py">>
S_module == <<"p", "s", "x.py">>
S_git == <<"p", ".git", "conftest.py">>
S_venv_test == <<"p", ".venv", "lib", "python3", "site-packages", "pkg", "test_x.py">>
S_venv_plugin == <<"p", ".venv", "lib", "python3", "site-packages", "pytest_m", "plugin.py">>
Tree ==
    [f \in {S_conftest, S_test, S_suffix, S_unreadable, S_module, S_git,
            S_venv_test, S_venv_plugin} |->
        CASE f = S_conftest -> Some(T_def)
          [] f = S_test -> Some(T_test)
          [] f = S_suffix -> Some(T_two)
          [] f = S_unreadable -> None
          [] f = S_module -> Some(T_def)
          [] f = S_git -> Some(T_self)
          [] f = S_venv_test -> Some(T_test)
          [] f = S_venv_plugin -> Some(T_def)]

\* the entries WalkDir yields below a directory, down to a depth
IsBelow(dir, f) == Len(f) > Len(dir) /\ SubSeq(f, 1, Len(dir)) = dir
WalkDir(dir, max_depth) ==
    {f \in DOMAIN Tree : IsBelow(dir, f) /\ Len(f) - Len(dir) <= max_depth}
MaxDepth == 8

\* Path::exists() of a directory
DirExists(dir) == \E f \in DOMAIN Tree : IsBelow(dir, f)

\* the directories an existing directory holds
SubDirs(dir) ==
    {SubSeq(f, 1, Len(dir) + 1) :
        f \in {g \in DOMAIN Tree : IsBelow(dir, g) /\ Len(g) > Len(dir) + 1}}

\* the file-name test of scan_workspace: conftest.py, test_*.py, *_test.py
is_workspace_file(path) ==
    LET filename == NameChars(path[Len(path)])
    IN  \/ path[Len(path)] = "conftest.py"
        \/ StartsWith(filename, N_test) /\ StrEndsWith(filename, Dot_py)
        \/ StrEndsWith(filename, Test_py)

\* the files the loop of scan_workspace analyzes: the entries of the walk
\* with such a name that can be read
WorkspaceFiles(root_path) ==
    {f \in WalkDir(root_path, MaxDepth) :
        is_workspace_file(f) /\ Tree[f] # None}

\* scan_venv_fixtures: the first of .venv, venv, env under the root that
\* exists, else the directory VIRTUAL_ENV names
VenvOf(root_path, virtual_env) ==
    IF DirExists(PathJoin(root_path, ".venv"))
    THEN Some(PathJoin(root_path, ".venv"))
    ELSE IF DirExists(PathJoin(root_path, "venv"))
    THEN Some(PathJoin(root_path, "venv"))
    ELSE IF DirExists(PathJoin(root_path, "env"))
    THEN Some(PathJoin(root_path, "env"))
    ELSE IF virtual_env # None /\ DirExists(virtual_env[1]) THEN virtual_env
    ELSE None

\* scan_venv_site_packages: lib/python*/site-packages
SitePackagesOf(venv_path) ==
    {PathJoin(d, "site-packages") :
        d \in {e \in SubDirs(PathJoin(venv_path, "lib")) :
                 /\ StartsWith(NameChars(e[Len(e)]),
                               <<"p", "y", "t", "h", "o", "n">>)
                 /\ DirExists(PathJoin(e, "site-packages"))}}

\* scan_pytest_plugins: the directories whose name starts with pytest or
\* contains _pytest
PluginDirs(site_packages) ==
    {d \in SubDirs(site_packages) :
        LET filename == NameChars(d[Len(d)])
        IN  \/ StartsWith(filename, N_pytest)
            \/ StrContains(filename, <<"_">> \o N_pytest)}

\* scan_plugin_directory: the .py files down to depth 3 that are no tests
PluginFiles(plugin_dir) ==
    {f \in WalkDir(plugin_dir, 3) :
        LET filename == NameChars(f[Len(f)])
        IN  /\ StrEndsWith(filename, Dot_py)
            /\ ~StartsWith(filename, N_test)
            /\ Tree[f] # None}

\* the files the plugin scan analyzes
VenvFiles(root_path, virtual_env) ==
    LET venv == VenvOf(root_path, virtual_env)
    IN  IF venv = None THEN {}
        ELSE UNION {PluginFiles(d) :
                      d \in UNION {PluginDirs(sp) :
                                     sp \in SitePackagesOf(venv[1])}}

\* the orders a directory walk can yield a set of files in
OrdersOf(S) ==
    {o \in [1..Cardinality(S) -> S] :
        \A i, j \in 1..Cardinality(S) : o[i] = o[j] => i = j}

\* analyze_file for the files of a sequence, one after the other
RECURSIVE AnalyzeAll(_, _)
AnalyzeAll(idx, files) ==
    IF files = <<>> THEN idx
    ELSE AnalyzeAll(analyze_file(idx, Head(files), Tree[Head(files)][1]),
                    Tail(files))

\* db.scan_workspace(root_path), with the VIRTUAL_ENV of the process
ScanWorkspace(root_path, virtual_env) ==
    \E order \in OrdersOf(WorkspaceFiles(root_path)) :
    \E plugins \in OrdersOf(VenvFiles(root_path, virtual_env)) :
        LET new == AnalyzeAll(Index, order \o plugins)
        IN  /\ result = NoResult
            /\ definitions' = new.definitions
            /\ usages' = new.usages
            /\ file_cache' = new.file_cache
            /\ result' = [NoResult EXCEPT
                            !.op = "scan_workspace",
                            !.file_path = root_path,
                            !.args = [virtual_env |-> virtual_env,
                                      plugins |-> plugins],
                            !.ret = order]
            /\ UNCHANGED <<tasks, calls, pathvars, lockvars>>

ScanRoots == {<<"p">>, <<"p", "s">>, <<"p", ".git">>}
ScanQueried == {S_conftest, S_test, S_git}

NextScan ==
    \/ \E r \in ScanRoots : \E v \in {None, Some(<<"p", ".venv">>)} :
           ScanWorkspace(r, v)
    \/ \E f \in ScanQueried : \E l \in 0..MaxLine : \E c \in 0..MaxCol :
           FindFixtureDefinition(f, l, c)
    \/ TakeResult

SpecScan == Init /\ [][NextScan]_vars

-----------------------------------------------------------------------------
(* find_closest_definition step by step: SpecWalk follows the loop that    *)
(* climbs from the directory of the file, one directory per step.          *)

\* a walk that stays in the directory it is in
WalkNextSame(current_dir) == Some(current_dir)

\* `match current_dir.parent()`: the directory the loop goes on with
WalkNext(current_dir) == Parent(current_dir)

WalkFiles == {F_root, F_sub, F_test}
WalkInputs(f) ==
    CASE f = F_root -> {T_def, T_cycle}
      [] f = F_sub -> {T_self, T_cycle}
      [] f = F_test -> {T_test}

\* the files and names find_closest_definition is called with
WalkQueried == {F_sub, F_test, F_oth, F_plug}
WalkNames == {N_a, N_b}

\* the reply of a finished find_closest_definition
WalkDone(file_path, fixture_name, visited, ret) ==
    [NoResult EXCEPT
        !.op = "find_closest_definition",
        !.file_path = file_path,
        !.args = [fixture_name |-> fixture_name, visited |-> visited],
        !.ret = ret]

\* find_closest_definition up to its loop: definitions.get, the loop over
\* the definitions of the same file, file_path.parent()
WalkStart(file_path, fixture_name) ==
    /\ result = NoResult
    /\ result' =
         IF fixture_name \notin DOMAIN definitions
         THEN WalkDone(file_path, fixture_name, <<>>, None)
         ELSE LET same == SameFileDefinition(definitions[fixture_name],
                                             file_path)
              IN  IF same # None
                  THEN WalkDone(file_path, fixture_name, <<>>, same)
                  ELSE IF Parent(file_path) = None
                  THEN WalkDone(file_path, fixture_name, <<>>, None)
                  ELSE [NoResult EXCEPT
                          !.op = "walking",
                          !.file_path = file_path,
                          !.args = [fixture_name |-> fixture_name,
                                    visited |-> <<>>,
                                    current_dir |-> Parent(file_path)[1]]]
    /\ UNCHANGED <<definitions, usages, file_cache, tasks, calls, pathvars,
                   lockvars>>

\* one turn of the loop: the conftest.py of current_dir, then its parent;
\* after the root the first definition is returned
WalkLevel ==
    /\ result.op = "walking"
    /\ LET defs == definitions[result.args.fixture_name]
           current_dir == result.args.current_dir
           visited == Append(result.args.visited, current_dir)
           found == FirstWith(defs,
                        {i \in DOMAIN defs :
                            defs[i].file_path
                                = PathJoin(current_dir, "conftest.py")})
       IN  result' =
             IF found # None
             THEN WalkDone(result.file_path, result.args.fixture_name,
                           visited, found)
             ELSE IF WalkNext(current_dir) = None
             THEN WalkDone(result.file_path, result.args.fixture_name,
                           visited, FirstAvailable(defs))
             ELSE [result EXCEPT
                     !.args.visited = visited,
                     !.args.current_dir = WalkNext(current_dir)[1]]
    /\ UNCHANGED <<definitions, usages, file_cache, tasks, calls, pathvars,
                   lockvars>>

\* the caller takes the reply
WalkReturn ==
    /\ result.op = "find_closest_definition"
    /\ result' = NoResult
    /\ UNCHANGED <<definitions, usages, file_cache, tasks, calls, pathvars,
                   lockvars>>

NextWalk ==
    \/ \E f \in WalkFiles : \E t \in WalkInputs(f) : AnalyzeFile(f, t)
    \/ \E f \in WalkQueried : \E n \in WalkNames : WalkStart(f, n)
    \/ WalkLevel
    \/ WalkReturn

\* a thread inside the loop goes on running
SpecWalk == Init /\ [][NextWalk]_vars /\ WF_vars(WalkLevel)

-----------------------------------------------------------------------------
(* get_line_from_offset on its own, and the lines analyze_file records for *)
(* fixtures made by assignment: SpecOffset.                                *)

OffsetTexts == {T_def, T_semicolon}

\* self.get_line_from_offset(offset, content)
GetLineFromOffset(offset, content) ==
    /\ result = NoResult
    /\ result' = [NoResult EXCEPT
                    !.op = "get_line_from_offset",
                    !.args = [offset |-> offset, content |-> content],
                    !.ret = get_line_from_offset(offset, content)]
    /\ UNCHANGED <<definitions, usages, file_cache, tasks, calls, pathvars,
                   lockvars>>

NextOffset ==
    \/ \E content \in OffsetTexts : \E offset \in 0..(Len(content) - 1) :
           GetLineFromOffset(offset, content)
    \/ \E f \in {F_root, F_sub} : \E t \in OffsetTexts : AnalyzeFile(f, t)
    \/ TakeResult

SpecOffset == Init /\ [][NextOffset]_vars

-----------------------------------------------------------------------------
(* The notions the properties below are stated with                        *)

FixtureNames == {N_a}

\* the definitions of a name, of a name in a file
DefsOf(n) ==
    IF n \in DOMAIN definitions
    THEN {definitions[n][i] : i \in 1..Len(definitions[n])} ELSE {}

SameFileDefs(n, f) == {d \in DefsOf(n) : d.file_path = f}

\* the conftest.py files of the directories from the parent of f up to
\* the root
AncestorConftests(f) ==
    {PathJoin(SubSeq(f, 1, k), "conftest.py") : k \in 0..(Len(f) - 1)}

AncestorDefs(n, f) == {d \in DefsOf(n) : d.file_path \in AncestorConftests(f)}

\* the deepest of the conftest.py files above f that define n
NearestConftest(n, f) ==
    CHOOSE c \in {d.file_path : d \in AncestorDefs(n, f)} :
        \A d \in AncestorDefs(n, f) : Len(d.file_path) <= Len(c)

ThirdPartyDefs(n) == {d \in DefsOf(n) : IsThirdParty(d.file_path)}

\* the order of the path components as strings
ComponentRank ==
    ("conftest.py" :> 1) @@ ("o" :> 2) @@ ("p" :> 3) @@ ("plugin.py" :> 4)
    @@ ("pytest_m" :> 5) @@ ("s" :> 6) @@ ("site-packages" :> 7)
    @@ ("test_x.py" :> 8) @@ ("v" :> 9)

\* PathBuf's order: component by component, a prefix first
RECURSIVE PathLess(_, _)
PathLess(p, q) ==
    IF q = <<>> THEN FALSE
    ELSE IF p = <<>> THEN TRUE
    ELSE IF Head(p) = Head(q) THEN PathLess(Tail(p), Tail(q))
    ELSE ComponentRank[Head(p)] < ComponentRank[Head(q)]

\* (file_path, line) in lexicographic order
DefLess(d, e) ==
    \/ PathLess(d.file_path, e.file_path)
    \/ d.file_path = e.file_path /\ d.line < e.line

\* the word under the cursor of a query
CursorWord(f, l, c) ==
    LET content == ReadContent(Index, f)
    IN  IF content = None \/ l + 1 > Len(LinesTable[content[1]]) THEN None
        ELSE extract_word_at_position(LinesTable[content[1]][l + 1], c)

\* the last call was find_fixture_definition with the cursor on a recorded
\* usage of n
UsageAtCursor(n) ==
    /\ result.op = "find_fixture_definition"
    /\ CursorWord(result.file_path, result.line, result.character) = Some(n)
    /\ result.file_path \in DOMAIN usages
    /\ \E i \in 1..Len(usages[result.file_path]) :
           /\ usages[result.file_path][i].name = n
           /\ usages[result.file_path][i].line = result.line + 1

\* the cursor is inside a parameter list
CursorAfterParen ==
    LET content == ReadContent(Index, result.file_path)[1]
        chars == LinesTable[content][result.line + 1]
    IN  \E j \in 1..result.character : chars[j] = "("

\* what the index holds of one file: its definitions under each name, its
\* usages and its cached text
ContributionOf(db, f) ==
    [definitions |->
         RemoveEmpty([n \in DOMAIN db.definitions |->
                         SelectSeq(db.definitions[n],
                                   LAMBDA d : d.file_path = f)]),
     usages |-> IF f \in DOMAIN db.usages THEN db.usages[f] ELSE <<>>,
     file_cache |-> IF f \in DOMAIN db.file_cache
                    THEN Some(db.file_cache[f]) ELSE None]

\* the definitions of a contribution, with their multiplicities
DefinitionBag(c) ==
    BagOf([d \in UNION {{c.definitions[n][i] :
                              i \in 1..Len(c.definitions[n])} :
                             n \in DOMAIN c.definitions} |->
              Occurrences(c.definitions[d.name], d)])

\* the usages of a contribution, with their multiplicities
UsageBag(c) ==
    BagOf([u \in {c.usages[i] : i \in 1..Len(c.usages)} |->
              Occurrences(c.usages, u)])

SubBag(a, b) ==
    \A x \in DOMAIN a : x \in DOMAIN b /\ a[x] <= b[x]

\* every record of contribution c is a record of contribution d
OnlyFrom(c, d) ==
    /\ SubBag(DefinitionBag(c), DefinitionBag(d))
    /\ SubBag(UsageBag(c), UsageBag(d))

\* the index with nothing in it
EmptyIndex == [definitions |-> <<>>, usages |-> <<>>, file_cache |-> <<>>]

\* the definitions and usages that a text gives to a file
ExtractedFrom(f, text) == ContributionOf(analyze_file(EmptyIndex, f, text), f)

-----------------------------------------------------------------------------
(* C1: from a usage in a file that defines the name several times (the    *)
(* cursor on a parameter of a function that is not itself a definition of  *)
(* the name), go-to-definition returns the same-file definition with the   *)
(* greatest line number.                                                   *)
C1_SameFileLastWins ==
    \A n \in FixtureNames :
        LET same == SameFileDefs(n, result.file_path)
        IN  (/\ UsageAtCursor(n)
             /\ CursorAfterParen
             /\ same # {}
             /\ \A d \in same : d.line # result.line + 1) =>
                /\ result.ret # None
                /\ result.ret[1] \in same
                /\ \A d \in same : d.line <= result.ret[1].line

(* C2: with no definition in the querying file, go-to-definition returns   *)
(* a definition of the nearest conftest.py above the file, whatever the    *)
(* order of the analyses and whatever other files define the name.         *)
C2_NearestAncestorConftest ==
    \A n \in FixtureNames :
        (/\ UsageAtCursor(n)
         /\ SameFileDefs(n, result.file_path) = {}
         /\ AncestorDefs(n, result.file_path) # {}) =>
            /\ result.ret # None
            /\ result.ret[1].name = n
            /\ result.ret[1].file_path = NearestConftest(n, result.file_path)

\* a test below two conftest.py files that define a, the unrelated
\* conftest.py analyzed before both: the nearer one is returned
C2_Witness ==
    /\ UsageAtCursor(N_a)
    /\ result.file_path = F_test
    /\ SameFileDefs(N_a, F_test) = {}
    /\ {F_root, F_sub} \subseteq {d.file_path : d \in DefsOf(N_a)}
    /\ definitions[N_a][1].file_path = F_oth
    /\ result.ret # None
    /\ result.ret[1].file_path = F_sub

(* C3: with the cursor on the parameter of a fixture that has the          *)
(* fixture's own name, go-to-definition returns the definition of the      *)
(* nearest conftest.py above, not the fixture's own definition.            *)
C3_SelfReferenceResolvesToParent ==
    \A n \in FixtureNames :
        LET f == result.file_path
            above == {d \in AncestorDefs(n, f) : d.file_path # f}
        IN  (/\ UsageAtCursor(n)
             /\ CursorAfterParen
             /\ Cardinality(SameFileDefs(n, f)) = 1
             /\ \E d \in SameFileDefs(n, f) : d.line = result.line + 1
             /\ above # {}) =>
                /\ result.ret # None
                /\ result.ret[1] \in above
                /\ \A d \in above :
                       Len(d.file_path) <= Len(result.ret[1].file_path)

(* C4: a definition of a conftest.py above the querying file is returned   *)
(* rather than a site-packages definition of the same name, whichever was  *)
(* analyzed first.                                                         *)
C4_HierarchyOverThirdParty ==
    \A n \in FixtureNames :
        (/\ UsageAtCursor(n)
         /\ SameFileDefs(n, result.file_path) = {}
         /\ AncestorDefs(n, result.file_path) # {}
         /\ ThirdPartyDefs(n) # {}) =>
            /\ result.ret # None
            /\ result.ret[1] \in AncestorDefs(n, result.file_path)
            /\ ~IsThirdParty(result.ret[1].file_path)

\* the plugin was analyzed first and the conftest.py is returned
C4_Witness ==
    /\ UsageAtCursor(N_a)
    /\ SameFileDefs(N_a, result.file_path) = {}
    /\ N_a \in DOMAIN definitions
    /\ IsThirdParty(definitions[N_a][1].file_path)
    /\ result.ret # None
    /\ result.ret[1] \in AncestorDefs(N_a, result.file_path)

(* C5: with no definition in the querying file or in a conftest.py above   *)
(* it, a site-packages definition is returned rather than a definition of  *)
(* an unrelated project file, whichever was analyzed first.                *)
C5_ThirdPartyOverUnrelated ==
    \A n \in FixtureNames :
        (/\ UsageAtCursor(n)
         /\ SameFileDefs(n, result.file_path) = {}
         /\ AncestorDefs(n, result.file_path) = {}
         /\ ThirdPartyDefs(n) # {}) =>
            /\ result.ret # None
            /\ result.ret[1] \in ThirdPartyDefs(n)

(* C6: with no same-file, ancestor or site-packages definition, the        *)
(* definition with the smallest (file_path, line) is returned, whatever    *)
(* the order of the analyses.                                              *)
C6_LastResortSmallest ==
    \A n \in FixtureNames :
        (/\ UsageAtCursor(n)
         /\ SameFileDefs(n, result.file_path) = {}
         /\ AncestorDefs(n, result.file_path) = {}
         /\ ThirdPartyDefs(n) = {}
         /\ DefsOf(n) # {}) =>
            /\ result.ret # None
            /\ result.ret[1] \in DefsOf(n)
            /\ \A d \in DefsOf(n) : ~DefLess(d, result.ret[1])

C9_NoPartialUpdateObserved ==
    \A t \in Threads :
        (/\ result.op = "find_fixture_definition"
         /\ tasks[t].pc # "idle"
         /\ tasks[t].alone) =>
            LET F == tasks[t].file_path
                before == tasks[t].pre[1]
                after == analyze_file(before, F, tasks[t].content)
            IN  ContributionOf(Index, F) \in
                    {ContributionOf(before, F), ContributionOf(after, F)}

(* C10: while one analyze_file(F, text) call is under way, the definitions *)
(* and usages of F in the index are never a mix of records of the previous *)
(* analysis and records of the new text; and once no call is under way,    *)
(* the definitions and usages of each analysed file are exactly those of   *)
(* its latest text.                                                        *)
C10_RemoveBeforeInsert ==
    /\ \A t \in Threads :
           (tasks[t].pc # "idle" /\ tasks[t].alone) =>
               LET F == tasks[t].file_path
                   before == tasks[t].pre[1]
                   after == analyze_file(before, F, tasks[t].content)
                   now == ContributionOf(Index, F)
               IN  \/ OnlyFrom(now, ContributionOf(before, F))
                   \/ OnlyFrom(now, ContributionOf(after, F))
    /\ (\A t \in Threads : tasks[t].pc = "idle") =>
           \A f \in DOMAIN file_cache :
               LET now == ContributionOf(Index, f)
                   new == ExtractedFrom(f, file_cache[f])
               IN  /\ now.definitions = new.definitions
                   /\ now.usages = new.usages

\* the index without anything of file f
WithoutFile(db, f) ==
    [definitions |-> RemoveEmpty(ClearDefinitions(db.definitions, f)),
     usages |-> MapRemove(db.usages, f),
     file_cache |-> MapRemove(db.file_cache, f)]

(* C11: after analyze_file(F, text) with a text that fails to parse, the   *)
(* index holds no definition and no usage of F, and a query returns what   *)
(* it returns on the index without F.                                      *)
C11_ParseFailureClears ==
    \A f \in DOMAIN file_cache :
        ~ParseTable[file_cache[f]].ok =>
            /\ ContributionOf(Index, f).definitions = <<>>
            /\ ContributionOf(Index, f).usages = <<>>
            /\ result.op = "find_fixture_definition" =>
                   result.ret =
                       find_fixture_definition(WithoutFile(Index, f),
                                               result.file_path,
                                               result.line, result.character)

(* C12: analyze_file(F, text) leaves the definitions, the usages and the   *)
(* cached text of every other file G as they were, whether the text parses *)
(* or not and whether or not F and G define the same name.                 *)
C12_Isolation ==
    [][\A g \in Files :
           ContributionOf(Index, g)' # ContributionOf(Index, g) =>
               \A f \in Files : \A t \in Inputs(f) :
                   AnalyzeFile(f, t) => f = g]_vars

\* the test file was analysed again, last with a text that does not parse,
\* after three other files had defined the name it uses
C12_Witness ==
    /\ F_test \in DOMAIN file_cache
    /\ file_cache[F_test] = T_bad
    /\ ContributionOf(Index, F_test).usages # <<>>
    /\ {F_root, F_sub, F_oth} \subseteq {d.file_path : d \in DefsOf(N_a)}

(* C13: from any index, analyze_file(path, text) called twice in a row     *)
(* leaves the definitions, the usages and the cached texts as the first    *)
(* call left them.                                                         *)
C13_AnalysisIdempotent ==
    result = NoResult =>
        \A f \in Files : \A t \in Inputs(f) :
            LET once == analyze_file(Index, f, t)
            IN  analyze_file(once, f, t) = once

\* the test file that defines the name twice and uses it twice was just
\* analysed, other files define the name too, and one more call with the
\* same text changes nothing
C13_Witness ==
    /\ F_test \in DOMAIN file_cache
    /\ file_cache[F_test] = T_two
    /\ Len(ContributionOf(Index, F_test).usages) = 2
    /\ {F_root, F_oth} \subseteq {d.file_path : d \in DefsOf(N_a)}
    /\ definitions[N_a][Len(definitions[N_a])].file_path = F_test
    /\ analyze_file(Index, F_test, T_two) = Index

(* C14: in every state, also between and after analyze_file calls that run *)
(* at once for one file, no list definitions[name] holds two definitions   *)
(* with the same (file_path, line).                                        *)
C14_DistinctDefinitions ==
    \A n \in DOMAIN definitions :
        \A i, j \in 1..Len(definitions[n]) :
            (/\ definitions[n][i].file_path = definitions[n][j].file_path
             /\ definitions[n][i].line = definitions[n][j].line) => i = j

\* "def " as a String
S_def == <<"d", "e", "f", " ">>

\* line k of the text has the identifier n right before a ")" or a ",":
\* n is written there as a parameter
ParamAt(lines, k, n) ==
    \E c \in 1..Len(lines[k]) :
        /\ extract_word_at_position(lines[k], c - 1) = Some(n)
        /\ WordEnd(lines[k], c - 1) < Len(lines[k])
        /\ lines[k][WordEnd(lines[k], c - 1) + 1] \in {")", ","}

\* the `def` line of the function that line k belongs to
EnclosingDefLine(lines, k) ==
    LET before == {i \in 1..k : StartsWith(lines[i], S_def)}
    IN  IF before = {} THEN 0
        ELSE CHOOSE i \in before : \A j \in before : j <= i

(* C15: every usage in the index has the line of the `def` of the function *)
(* whose parameter it is, for fixtures and tests alike, also when the      *)
(* parameter is written on a later line than the `def`.                    *)
C15_UsageAnchor ==
    \A f \in DOMAIN usages :
        (result = NoResult /\ ParseTable[file_cache[f]].ok) =>
            LET lines == LinesTable[file_cache[f]]
            IN  \A i \in 1..Len(usages[f]) :
                    \E k \in 1..Len(lines) :
                        /\ ParamAt(lines, k, usages[f][i].name)
                        /\ usages[f][i].line = EnclosingDefLine(lines, k)

\* the usage of the parameter written on the second line of the test is
\* in the index, with the line of the `def`
C15_Witness ==
    /\ F_test \in DOMAIN usages
    /\ file_cache[F_test] = T_multi
    /\ \E i \in 1..Len(usages[F_test]) :
           /\ usages[F_test][i].name = N_a
           /\ usages[F_test][i].line = 1
           /\ ~ParamAt(LinesTable[T_multi], 1, N_a)
           /\ ParamAt(LinesTable[T_multi], 2, N_a)

\* "def test_" as a String
S_def_test == S_def \o N_test

(* C16: with the cursor on a parameter of a test function, on the          *)
(* parameter's own line after the `def` line, go-to-definition returns a   *)
(* definition of that name when the index has one.                         *)
C16_MultilineParameter ==
    \A n \in FixtureNames :
        (/\ result.op = "find_fixture_definition"
         /\ result.file_path \in DOMAIN file_cache
         /\ ParseTable[file_cache[result.file_path]].ok
         /\ result.line + 1 <= Len(LinesTable[file_cache[result.file_path]])
         /\ DefsOf(n) # {}) =>
            LET lines == LinesTable[file_cache[result.file_path]]
                k == result.line + 1
                c == result.character
                def_line == EnclosingDefLine(lines, k)
            IN  (/\ extract_word_at_position(lines[k], c) = Some(n)
                 /\ WordEnd(lines[k], c) < Len(lines[k])
                 /\ lines[k][WordEnd(lines[k], c) + 1] \in {")", ","}
                 /\ def_line > 0
                 /\ def_line < k
                 /\ StartsWith(lines[def_line], S_def_test)) =>
                    /\ result.ret # None
                    /\ result.ret[1].name = n

\* file f has a usage named n recorded at 1-based line k
UsageRecordedAt(f, k, n) ==
    /\ f \in DOMAIN usages
    /\ \E i \in 1..Len(usages[f]) :
           usages[f][i].name = n /\ usages[f][i].line = k

\* file f has a definition named n at 1-based line k
DefinitionRecordedAt(f, k, n) ==
    \E d \in DefsOf(n) : d.file_path = f /\ d.line = k

(* C17: find_fixture_at_position returns the identifier under the cursor   *)
(* when the file has a usage of that name recorded at the cursor's line or *)
(* a definition of that name at that line, and none in every other case.   *)
C17_FixtureAtPosition ==
    result.op = "find_fixture_at_position" =>
        LET f == result.file_path
            k == result.line + 1
            word == CursorWord(f, result.line, result.character)
        IN  IF /\ word # None
               /\ \/ UsageRecordedAt(f, k, word[1])
                  \/ DefinitionRecordedAt(f, k, word[1])
            THEN result.ret = word
            ELSE result.ret = None

\* the cursor is on the name of a fixture in its `def` line, where the
\* file has no usage: the name comes from the definition
C17_Witness ==
    /\ result.op = "find_fixture_at_position"
    /\ result.ret = Some(N_a)
    /\ ~UsageRecordedAt(result.file_path, result.line + 1, N_a)
    /\ DefinitionRecordedAt(result.file_path, result.line + 1, N_a)

\* the definitions of n that are visible from f: those of f, of the
\* conftest.py files above it and of the third-party packages
VisibleDefs(n, f) ==
    SameFileDefs(n, f) \cup AncestorDefs(n, f) \cup ThirdPartyDefs(n)

C19_OutOfHierarchyNotFlagged ==
    result.op = "get_undeclared_fixtures" =>
        \A n \in FixtureNames :
            (DefsOf(n) # {} /\ VisibleDefs(n, result.file_path) = {}) =>
                \A i \in DOMAIN result.ret : result.ret[i].name # n

\* a is defined in /o/conftest.py alone, the test of /p/s/test_x.py reads
\* a without declaring it, and no record is returned for /p/s/test_x.py
C19_Witness ==
    /\ result.op = "get_undeclared_fixtures"
    /\ result.file_path = F_test
    /\ F_test \in DOMAIN file_cache
    /\ file_cache[F_test] = T_free
    /\ {d.file_path : d \in DefsOf(N_a)} = {F_oth}
    /\ undeclared_fixtures(Index, F_test) # <<>>
    /\ result.ret = <<>>

\* the statements of the text last analyzed for f
StatementsOf(f) ==
    IF f \in DOMAIN file_cache THEN Parse(file_cache[f]).body ELSE <<>>

\* the function of f that a record names
EnclosingFunctions(f, u) ==
    {st \in Elems(StatementsOf(f)) :
        /\ st.kind = "FunctionDef"
        /\ st.name = u.function_name
        /\ \E k \in DOMAIN st.body :
               /\ st.body[k].e = "Name"
               /\ st.body[k].id = u.name
               /\ st.body[k].row = u.line}

\* f imports n
Imported(f, n) ==
    \E k \in DOMAIN StatementsOf(f) :
        /\ StatementsOf(f)[k].kind = "Import"
        /\ \E j \in DOMAIN StatementsOf(f)[k].names :
               StatementsOf(f)[k].names[j] = n

\* f binds n at module level: by an assignment or by a function that is
\* not a fixture
ModuleLevelBound(f, n) ==
    \E k \in DOMAIN StatementsOf(f) :
        LET st == StatementsOf(f)[k]
        IN  \/ st.kind = "Assign" /\ \E j \in DOMAIN st.targets :
                                         st.targets[j] = n
            \/ /\ st.kind = "FunctionDef"
               /\ st.name = n
               /\ st.decorator_list = <<>>

FixtureStatements(f) ==
    {st \in Elems(StatementsOf(f)) :
        st.kind = "FunctionDef" /\ st.decorator_list # <<>>}

FunctionsOf(f) == {st \in Elems(StatementsOf(f)) : st.kind = "FunctionDef"}

\* the readings in the body of st of names that are no parameter of st,
\* not imported by f and not bound at module level of f
FreeReadings(f, st) ==
    {x \in Elems(st.body) :
        /\ x.e = "Name"
        /\ \A j \in DOMAIN st.args : st.args[j] # x.id
        /\ ~Imported(f, x.id)
        /\ ~ModuleLevelBound(f, x.id)}

\* the reading x of function st is among the undeclared candidates of f
IsCandidate(f, st, x) ==
    \E i \in DOMAIN undeclared_fixtures(Index, f) :
        LET u == undeclared_fixtures(Index, f)[i]
        IN  u.name = x.id /\ u.line = x.row /\ u.function_name = st.name

ScopeOrder == <<"function", "class", "module", "package", "session">>

\* scope a is narrower than scope b
Narrower(a, b) ==
    \E i, j \in DOMAIN ScopeOrder :
        ScopeOrder[i] = a /\ ScopeOrder[j] = b /\ i < j

\* C24: should_exclude_fixture(candidate, current_scope) is true iff
\* current_scope is Some(s) and the candidate's scope is narrower than s in
\* the order function < class < module < package < session; with
\* current_scope None it is false for every candidate.
C24_ScopeFilter ==
    result.op = "should_exclude_fixture" =>
        LET candidate == result.definition[1]
            current_scope == result.args.fixture_scope
        IN  result.ret
            <=> ( /\ current_scope # None
                  /\ Narrower(candidate.scope, current_scope[1]) )

\* a function-scoped candidate is excluded for a session-scoped fixture
C24_Witness ==
    /\ result.op = "should_exclude_fixture"
    /\ result.definition[1].scope = "function"
    /\ result.args.fixture_scope = Some("session")
    /\ result.ret = TRUE

\* the exclusion of a candidate as the rules state it
ExcludedByRule(candidate, declared_params, fixture_scope, current_fixture_name) ==
    \/ candidate.name \in {N_self, N_cls}
    \/ current_fixture_name = Some(candidate.name)
    \/ /\ declared_params # None
       /\ candidate.name \in Elems(declared_params[1])
    \/ /\ fixture_scope # None
       /\ Narrower(candidate.scope, fixture_scope[1])

\* the fixtures of a list of enriched fixtures
FixturesOf(enriched) == [i \in DOMAIN enriched |-> enriched[i].fixture]

\* C25: is_fixture_excluded is true iff the candidate is named self or cls,
\* or has the name of the fixture being edited, or is among the declared
\* parameters, or has a scope narrower than the scope of the fixture being
\* edited; filter_and_enrich_fixtures returns the candidates of its input
\* that are not excluded, each once per occurrence and in the input order.
C25_CompletionExclusion ==
    /\ result.op = "is_fixture_excluded" =>
           ( result.ret
             <=> ExcludedByRule(result.definition[1],
                                result.args.declared_params,
                                result.args.fixture_scope,
                                result.args.current_fixture_name) )
    /\ result.op = "filter_and_enrich_fixtures" =>
           FixturesOf(result.ret)
           = SelectSeq(result.args.available,
                       LAMBDA c : ~ExcludedByRule(
                                       c, result.args.declared_params,
                                       result.args.fixture_scope,
                                       result.args.current_fixture_name))

\* from the list b (session), self, a (module) with no declared parameters
\* and the scope module, b and a are returned in this order
C25_Witness ==
    /\ result.op = "filter_and_enrich_fixtures"
    /\ Len(result.args.available) = 3
    /\ result.args.available[1].name = N_b
    /\ result.args.available[2].name = N_self
    /\ result.args.available[3].name = N_a
    /\ result.args.declared_params = None
    /\ result.args.fixture_scope = Some("module")
    /\ result.args.current_fixture_name = None
    /\ Len(result.ret) = 2
    /\ result.ret[1].fixture.name = N_b
    /\ result.ret[2].fixture.name = N_a

\* C26: for every raw path, Path::canonicalize runs at most once, also when
\* several threads call get_canonical_path for the path at the same time.
C26_CanonicalizedOnce ==
    \A p \in RawPaths : CanonicalizedCount(p) <= 1

\* C26, second half: a mapping of the cache is never removed and never
\* replaced by a different value.
C26_CacheWriteOnce ==
    [][\A p \in DOMAIN canonical_path_cache :
           /\ p \in DOMAIN canonical_path_cache'
           /\ canonical_path_cache'[p] = canonical_path_cache[p]]_vars

\* two indexes that no query by a path of AliasFiles tells apart
SameAnswers(a, b) ==
    /\ \A q \in AliasFiles : \A l \in 0..MaxLine : \A c \in 0..MaxCol :
           find_fixture_definition(a, q, l, c)
           = find_fixture_definition(b, q, l, c)
    /\ \A n \in FixtureNames :
           find_fixture_references(a, n) = find_fixture_references(b, n)

\* C27: for two raw paths that canonicalize to the same path and every
\* text, analyzing the text through the one path or through the other
\* leaves indexes that give the same answer to every find_fixture_definition
\* and find_fixture_references call, and analyzing through the second path
\* after the first changes no answer (the contributions are replaced, not
\* duplicated).
C27_PathInsensitivity ==
    result = NoResult =>
        \A p1, p2 \in AliasFiles :
            CanonicalOrRaw(p1, linked) = CanonicalOrRaw(p2, linked) =>
                \A t \in AliasInputs(p1) \cap AliasInputs(p2) :
                    LET a == analyze_file(Index, p1, t)
                        b == analyze_file(Index, p2, t)
                    IN  /\ SameAnswers(a, b)
                        /\ SameAnswers(analyze_file(a, p2, t), a)

\* C28: when two analyze_file calls were made, both for the same file F and
\* with texts that parse, and both have returned, what the index holds of F
\* is what analyzing one of the two texts alone gives: the cached text is
\* one of the texts, and the definitions and usages of F are exactly the
\* records of that text, each once.
C28_ConcurrentAnalysesLinearize ==
    (calls = 2 /\ \A t \in Threads : tasks[t].pc = "idle") =>
        \A F \in ConcFiles :
            (DOMAIN file_cache = {F} /\ ParseTable[file_cache[F]].ok) =>
                ContributionOf(Index, F) = ExtractedFrom(F, file_cache[F])

\* C29: between the calls, for every file that was analyzed, the cached
\* text is the text of the latest analyze_file call for it, the definitions
\* and usages recorded for the file are exactly those extracted from that
\* text (none when it does not parse), and every recorded line is a line of
\* that text.
C29_CacheIndexCoherence ==
    result = NoResult =>
        \A f \in DOMAIN file_cache :
            /\ ContributionOf(Index, f) = ExtractedFrom(f, file_cache[f])
            /\ \A u \in AllUsages :
                   u.file_path = f =>
                       u.line \in 1..Len(LinesTable[file_cache[f]])
            /\ \A d \in AllDefinitions :
                   d.file_path = f =>
                       d.line \in 1..Len(LinesTable[file_cache[f]])

\* the queries: the steps that produce a reply
QueryOps ==
    {"find_fixture_definition", "find_fixture_at_position",
     "find_fixture_references", "find_references_for_definition",
     "get_file_content"}

\* C30: a query step (find_fixture_definition, find_fixture_at_position,
\* find_fixture_references, get_file_content) leaves definitions, usages
\* and the file cache as they were, also when the text is read from the
\* file system.
C30_QueriesReadOnly ==
    [][ (result = NoResult /\ result'.op \in QueryOps) =>
            /\ definitions' = definitions
            /\ usages' = usages
            /\ file_cache' = file_cache ]_vars

\* a query read the text of a file from the file system: the file is not
\* in the cache after the reply
C30_Witness ==
    /\ result.op \in {"get_file_content", "find_fixture_at_position"}
    /\ result.file_path \in DOMAIN Disk
    /\ result.file_path \notin DOMAIN file_cache
    /\ (result.op = "get_file_content" => result.ret = Some(Disk[F_plug]))
    /\ definitions # <<>>

\* C31: every call returns: a thread that is inside analyze_file or
\* find_fixture_definition, whatever shard locks the other threads hold or
\* wait for, eventually leaves the call.
C31_EveryCallReturns ==
    \A t \in Threads : (lock_ops[t].ops # <<>>) ~> (lock_ops[t].ops = <<>>)

\* a query holds its read guard on usages and waits for a definitions shard
\* that an analysis holds the write guard of
C31_Witness ==
    \E t \in Threads : \E u \in Threads \ {t} :
        /\ lock_ops[t].ops # <<>>
        /\ Head(lock_ops[t].ops) = LockOp("acquire", "definitions", 1, "read")
        /\ t \in shards[<<"usages", 2>>].readers
        /\ shards[<<"definitions", 1>>].writer = Some(u)
        /\ writer_first

\* the runs of identifier characters of a line that cannot be extended, as
\* pairs of 1-based first and last positions
MaximalRuns(chars) ==
    {r \in (1..Len(chars)) \X (1..Len(chars)) :
        /\ r[1] <= r[2]
        /\ \A i \in r[1]..r[2] : IsIdentChar(chars[i])
        /\ (r[1] = 1 \/ ~IsIdentChar(chars[r[1] - 1]))
        /\ (r[2] = Len(chars) \/ ~IsIdentChar(chars[r[2] + 1]))}

\* the identifier the 0-based column col is on, if any
IdentifierAt(chars, col) ==
    LET on == {r \in MaximalRuns(chars) : r[1] <= col + 1 /\ col + 1 <= r[2]}
    IN  IF on = {} THEN None
        ELSE LET r == CHOOSE x \in on : TRUE
             IN  Some(SubSeq(chars, r[1], r[2]))

\* C33: extract_word_at_position(line, col) is the maximal run of
\* identifier characters that contains col when the character at col is an
\* identifier character, and none when col is on another character, at the
\* end of the line or beyond it.
C33_WordAtCursor ==
    result.op = "extract_word_at_position" =>
        LET chars == result.args.line
            col == result.character
        IN  /\ result.ret = IdentifierAt(chars, col)
            /\ (col >= Len(chars) => result.ret = None)
            /\ (col < Len(chars) /\ ~IsIdentChar(chars[col + 1]) =>
                    result.ret = None)
            /\ (col < Len(chars) /\ IsIdentChar(chars[col + 1]) =>
                    result.ret # None)

\* the cursor is in the middle of test_ in "def test_(a):0": the word starts
\* before the cursor and ends after it
C33_Witness ==
    /\ result.op = "extract_word_at_position"
    /\ result.args.line = L_test
    /\ result.character = 6
    /\ result.ret = Some(N_test)

\* C32: find_fixture_definition returns a definition only when the
\* identifier under the cursor is the name of a usage recorded for the file
\* at the cursor's line and the index holds a definition of that name, and
\* then a definition of that name; at every other position it returns none.
C32_ResolutionNeedsUsage ==
    result.op = "find_fixture_definition" =>
        LET content == ReadContent(Index, result.file_path)
            lines == IF content = None THEN <<>> ELSE LinesTable[content[1]]
            word == IF result.line + 1 \in 1..Len(lines)
                    THEN IdentifierAt(lines[result.line + 1], result.character)
                    ELSE None
            recorded ==
                /\ word # None
                /\ \E u \in AllUsages :
                       /\ u.file_path = result.file_path
                       /\ u.line = result.line + 1
                       /\ u.name = word[1]
                /\ \E d \in AllDefinitions : d.name = word[1]
        IN  /\ result.ret # None =>
                recorded /\ result.ret[1].name = word[1]
                         /\ result.ret[1] \in AllDefinitions
            /\ ~recorded => result.ret = None

\* the cursor is on the parameter a of a test whose fixture is defined in
\* conftest.py: the definition is returned
C32_Witness ==
    /\ result.op = "find_fixture_definition"
    /\ result.file_path = F_test
    /\ F_test \in DOMAIN file_cache
    /\ file_cache[F_test] = T_test
    /\ result.line = 0
    /\ result.character = 10
    /\ result.ret # None
    /\ result.ret[1].file_path = F_root

\* on the name of the test function, on `def` and on `(` nothing is
\* returned although the line holds a usage
C32_WitnessNone ==
    /\ result.op = "find_fixture_definition"
    /\ result.file_path = F_test
    /\ F_test \in DOMAIN file_cache
    /\ file_cache[F_test] = T_test
    /\ result.line = 0
    /\ result.character = 4
    /\ definitions # <<>>
    /\ result.ret = None

\* C34: for every u32 line, 2^32 - 1 included, and every character,
\* find_fixture_definition and find_fixture_at_position return (a result
\* or none) and do not fail, and they return none when the line is not a
\* line of the text of the file.
C34_CoordinatesTotal ==
    result.op \in {"find_fixture_definition_u32",
                   "find_fixture_at_position_u32"} =>
        LET content == ReadContent(Index, result.file_path)
            lines == IF content = None THEN <<>> ELSE LinesTable[content[1]]
            line == result.args.line
        IN  /\ ~result.args.panicked
            /\ (line.hi > 0 \/ line.lo >= Len(lines)) => result.ret = None

\* the same with the one overflowing line left out
C34_TotalBelowMax ==
    (/\ result.op \in {"find_fixture_definition_u32",
                       "find_fixture_at_position_u32"}
     /\ result.args.line # U32Max) =>
        LET content == ReadContent(Index, result.file_path)
            lines == IF content = None THEN <<>> ELSE LinesTable[content[1]]
            line == result.args.line
        IN  /\ ~result.args.panicked
            /\ (line.hi > 0 \/ line.lo >= Len(lines)) => result.ret = None

\* how often x occurs in a sequence
CountIn(seq, x) == Cardinality({i \in DOMAIN seq : seq[i] = x})

\* the usage records among the pushes of a statement
UsagePushes(ps) ==
    LET us == SelectSeq(ps, LAMBDA p : p.op = "usage")
    IN  [i \in DOMAIN us |-> us[i].rec]

\* C35: a fixture definition gives no usage for its parameters self, cls
\* and request, a test_ function none for self and cls, and every other
\* parameter gives exactly one usage, at the line of the function.
C35_ParameterExtraction ==
    result.op = "visit_stmt" =>
        LET stmt == result.args
            is_fixture == stmt.decorator_list # <<>>
            is_test == StartsWith(stmt.name, N_test)
            skipped == IF is_fixture THEN {N_self, N_cls, N_request}
                       ELSE {N_self, N_cls}
            pushed == UsagePushes(result.ret)
        IN  (is_fixture # is_test) =>
                /\ \A n \in ParamNames :
                       CountIn([i \in DOMAIN pushed |-> pushed[i].name], n)
                           = IF n \in skipped THEN 0
                             ELSE CountIn(stmt.args, n)
                /\ \A i \in DOMAIN pushed :
                       pushed[i].line = 1 /\ pushed[i].file_path = F_test

\* the same with cls recorded like any other parameter, as visit_stmt does
C35_ExtractionKeepingCls ==
    result.op = "visit_stmt" =>
        LET stmt == result.args
            is_fixture == stmt.decorator_list # <<>>
            is_test == StartsWith(stmt.name, N_test)
            skipped == IF is_fixture THEN {N_self, N_request} ELSE {N_self}
            pushed == UsagePushes(result.ret)
        IN  (is_fixture # is_test) =>
                /\ \A n \in ParamNames :
                       CountIn([i \in DOMAIN pushed |-> pushed[i].name], n)
                           = IF n \in skipped THEN 0
                             ELSE CountIn(stmt.args, n)
                /\ \A i \in DOMAIN pushed :
                       pushed[i].line = 1 /\ pushed[i].file_path = F_test

\* the 1-based line of a text that contains the 0-based offset
LineContaining(content, offset) ==
    1 + Cardinality({i \in 1..offset : content[i] = NL})

\* the methods of the classes at module level of a text
MethodsOf(content) ==
    LET body == ParseTable[content].body
    IN  UNION {Elems(body[i].body) :
                 i \in {j \in DOMAIN body : body[j].kind = "ClassDef"}}

\* C36: after a file with a class at module level was analyzed, every
\* fixture-decorated method of the class is a recorded definition of the
\* file, at the line of its def, and every parameter of a test_ method
\* other than self and cls is a recorded usage at the line of the method.
C36_ClassBodiesAnalyzed ==
    result = NoResult =>
        \A f \in DOMAIN file_cache :
            \A m \in MethodsOf(file_cache[f]) :
                LET line == LineContaining(file_cache[f], m.start)
                IN  /\ (m.decorator_list # <<>>) =>
                           \E d \in AllDefinitions :
                               /\ d.name = m.name
                               /\ d.file_path = f
                               /\ d.line = line
                    /\ StartsWith(m.name, N_test) =>
                           \A i \in DOMAIN m.args :
                               m.args[i] \notin {N_self, N_cls} =>
                                   \E u \in AllUsages :
                                       /\ u.name = m.args[i]
                                       /\ u.file_path = f
                                       /\ u.line = line

\* the directories the workspace scan is to stay out of
DeniedDirs == {".venv", "venv", "env", ".git", "__pycache__"}

\* C37: the files scan_workspace analyzes in its walk are exactly the
\* readable files below the root named conftest.py, test_*.py or *_test.py
\* with no virtual-environment, cache or VCS directory between the root and
\* the file.
C37_ScanFilter ==
    result.op = "scan_workspace" =>
        Elems(result.ret) =
            {f \in DOMAIN Tree :
                /\ IsBelow(result.file_path, f)
                /\ Tree[f] # None
                /\ \/ f[Len(f)] \in {"conftest.py", "test_x.py"}
                   \/ f[Len(f)] \in {"x_test.py", "u_test.py"}
                /\ \A i \in (Len(result.file_path) + 1)..(Len(f) - 1) :
                       f[i] \notin DeniedDirs}

\* the same without the clause on the directories
C37_ScanByNameOnly ==
    result.op = "scan_workspace" =>
        Elems(result.ret) =
            {f \in DOMAIN Tree :
                /\ IsBelow(result.file_path, f)
                /\ Tree[f] # None
                /\ \/ f[Len(f)] \in {"conftest.py", "test_x.py"}
                   \/ f[Len(f)] \in {"x_test.py", "u_test.py"}}

\* the directories above a file, the root included
AncestorDirs(file_path) ==
    {SubSeq(file_path, 1, n) : n \in 0..(Len(file_path) - 1)}

\* C38: a call of find_closest_definition that has entered the upward walk
\* leaves it; the directories it has looked at are ancestors of the file,
\* each looked at once; and its reply is the one of find_closest_definition.
\* That holds with fixtures that depend on themselves and on each other.
C38_ResolutionTerminates ==
    /\ [](result.op \in {"walking", "find_closest_definition"} =>
            LET visited == result.args.visited
            IN  /\ \A i, j \in DOMAIN visited :
                       visited[i] = visited[j] => i = j
                /\ \A i \in DOMAIN visited :
                       visited[i] \in AncestorDirs(result.file_path))
    /\ [](result.op = "find_closest_definition" =>
            result.ret = find_closest_definition(Index, result.file_path,
                                                 result.args.fixture_name))
    /\ ((result.op = "walking") ~> (result.op = "find_closest_definition"))

\* the walk from /p/s/test_x.py went through /p/s and /p and found fixture
\* a in /p/conftest.py, where a depends on b and b on a
C38_Witness ==
    /\ result.op = "find_closest_definition"
    /\ result.file_path = F_test
    /\ result.args.fixture_name = N_a
    /\ result.args.visited = <<<<"p", "s">>, <<"p">>>>
    /\ F_root \in DOMAIN file_cache
    /\ file_cache[F_root] = T_cycle
    /\ result.ret # None
    /\ result.ret[1].file_path = F_root

\* the walk from a file outside of /p reached the root and fell back
C38_WitnessRoot ==
    /\ result.op = "find_closest_definition"
    /\ result.file_path = F_oth
    /\ result.args.visited = <<<<"o">>, <<>>>>
    /\ result.ret # None

\* the code points of the characters of sort texts
CodePoint(c) ==
    CASE c = "0" -> 48 [] c = "1" -> 49 [] c = "2" -> 50 [] c = "3" -> 51
      [] c = "_" -> 95 [] c = "a" -> 97 [] c = "b" -> 98

\* s is before t in the order of strings
RECURSIVE StrLess(_, _)
StrLess(s, t) ==
    IF t = <<>> THEN FALSE
    ELSE IF s = <<>> THEN TRUE
    ELSE IF Head(s) # Head(t) THEN CodePoint(Head(s)) < CodePoint(Head(t))
    ELSE StrLess(Tail(s), Tail(t))

\* the priority of a fixture as the four groups are described
ProximityGroup(fixture, current_file) ==
    CHOOSE g \in 0..3 :
        /\ g = 0 <=> fixture.file_path = current_file
        /\ g = 3 <=> fixture.file_path # current_file /\ fixture.is_third_party
        /\ g = 2 <=> /\ fixture.file_path # current_file
                     /\ fixture.is_plugin /\ ~fixture.is_third_party

\* C39: fixture_sort_priority is 0 for a fixture of the current file, 3 for
\* any other third-party fixture, 2 for a plugin-only fixture, 1 for the
\* rest; the sort text of make_sort_text is before another one exactly when
\* its priority is lower, or equal with a name that is alphabetically
\* before; completion items carry the sort text of their priority and name.
C39_CompletionOrdering ==
    /\ result.op = "fixture_sort_priority" =>
           result.ret = ProximityGroup(result.definition[1], result.file_path)
    /\ result.op = "make_sort_text" =>
           \A p \in 0..3 : \A n \in SortNames :
               StrLess(result.ret, make_sort_text(p, n))
                   <=> \/ result.args.priority < p
                       \/ /\ result.args.priority = p
                          /\ StrLess(result.args.fixture_name, n)
    /\ result.op = "filter_and_enrich_fixtures" =>
           \A i \in DOMAIN result.ret :
               result.ret[i].sort_text =
                   Digits(ProximityGroup(result.ret[i].fixture,
                                         result.file_path))
                   \o <<"_">> \o result.ret[i].fixture.name

\* a fixture of the current file that is flagged third-party and plugin
\* gets priority 0
C39_Witness ==
    /\ result.op = "fixture_sort_priority"
    /\ result.definition[1].file_path = result.file_path
    /\ result.definition[1].is_third_party
    /\ result.definition[1].is_plugin
    /\ result.ret = 0

\* a fixture of another file flagged third-party and plugin gets 3
C39_WitnessBoth ==
    /\ result.op = "fixture_sort_priority"
    /\ result.definition[1].file_path # result.file_path
    /\ result.definition[1].is_third_party
    /\ result.definition[1].is_plugin
    /\ result.ret = 3

\* a sort text of priority 1 and name ab
C39_WitnessText ==
    /\ result.op = "make_sort_text"
    /\ result.ret = <<"1", "_", "a", "b">>

\* the offsets at which a line of the text starts
LineStarts(content) ==
    {0} \cup {i \in 1..(Len(content) - 1) : content[i] = NL}

\* C40: for every offset inside a text get_line_from_offset is the number
\* of the line that contains the offset, at the start of a line and inside
\* it, and the line recorded for a fixture made by an assignment is the
\* line the assignment is on.
C40_OffsetToLine ==
    /\ result.op = "get_line_from_offset" =>
           result.ret = LineContaining(result.args.content, result.args.offset)
    /\ result = NoResult =>
           \A f \in DOMAIN file_cache :
               \A d \in AllDefinitions :
                   d.file_path = f =>
                       \E st \in Elems(ParseTable[file_cache[f]].body) :
                           /\ \/ st.kind = "Assign" /\ Contains(st.targets, d.name)
                              \/ st.kind = "FunctionDef" /\ st.name = d.name
                           /\ d.line = LineContaining(file_cache[f], st.start)

\* the same for the offsets at which a line starts
C40_LineStartsOnly ==
    (/\ result.op = "get_line_from_offset"
     /\ result.args.offset \in LineStarts(result.args.content)) =>
        result.ret = LineContaining(result.args.content, result.args.offset)

====
